---- MODULE Spec2Model ----
(***************************************************************************)
(* State-machine model of the hotelbeds-go client: the error               *)
(* classification layer (errors.go), the request validation layer and the  *)
(* ListAvailableHotels call path (booking.go, content.go), and the scalar  *)
(* codecs (encoding.go, audit.go).                                         *)
(*                                                                         *)
(* Go strings and byte slices are modelled as sequences of one-character   *)
(* strings, so that strings.ToLower, strings.Contains, strings.Split,      *)
(* time.Parse and the like are computed character by character.            *)
(***************************************************************************)
EXTENDS Integers, Sequences, FiniteSets, TLC

VARIABLES
    msg,      \* argument of decodeErrorMessage
    cond,     \* error returned by decodeErrorMessage
    resp,     \* the *http.Response handed to decodeError (status, unread body)
    unread,   \* what decodeError left unread of the response body
    err,      \* error returned by decodeError
    geo,      \* receiver of Geolocation.Validate
    geoErr,   \* error returned by Geolocation.Validate
    inp,      \* argument of the last ListAvailableHotels call
    out,      \* what the last ListAvailableHotels call returned
    wire,     \* requests handed to the HTTP transport, oldest first
    pc,       \* "idle", or "waiting" while a request awaits its response
    subject,  \* receiver of the last Validate call: which type, which value
    verdict,  \* error returned by that Validate call
    codec,    \* the scalar codec type in use ("" when none is)
    source,   \* what the codec run starts from: a typed value or a wire token
    data,     \* bytes returned by MarshalJSON (empty before the call)
    target,   \* the value UnmarshalJSON decodes into
    cerr,     \* outcome of UnmarshalJSON: nil, an error, or a panic
    catalog,  \* the package-level map isRetryableError as it stands
    calls     \* the calls in progress, one per goroutine

validationVars == <<subject, verdict>>

codecVars == <<codec, source, data, target, cerr>>

concurrencyVars == <<catalog, calls>>

vars ==
    <<msg, cond, resp, unread, err, geo, geoErr, inp, out, wire, pc,
      validationVars, codecVars, concurrencyVars>>

\* Marks a result slot no operation has written yet.
NoResult == [id |-> "none"]

\* Go's nil pointer.
Nil == [id |-> "nil"]

\* Go's nil error.
NoError == [id |-> "nil"]

\* No Validate call has been made.
ValidationIdle == subject = NoResult /\ verdict = NoResult

\* No codec is in use.
CodecIdle ==
    /\ codec = "" /\ source = NoResult /\ data = << >>
    /\ target = NoResult /\ cerr = NoResult

(***************************************************************************)
(* strings                                                                 *)
(***************************************************************************)
EmptyString == << >>

UpperChars ==
    <<"A","B","C","D","E","F","G","H","I","J","K","L","M",
      "N","O","P","Q","R","S","T","U","V","W","X","Y","Z">>

LowerChars ==
    <<"a","b","c","d","e","f","g","h","i","j","k","l","m",
      "n","o","p","q","r","s","t","u","v","w","x","y","z">>

ToLowerChar(c) ==
    IF \E i \in DOMAIN UpperChars : UpperChars[i] = c
    THEN LowerChars[CHOOSE i \in DOMAIN UpperChars : UpperChars[i] = c]
    ELSE c

ToUpperChar(c) ==
    IF \E i \in DOMAIN LowerChars : LowerChars[i] = c
    THEN UpperChars[CHOOSE i \in DOMAIN LowerChars : LowerChars[i] = c]
    ELSE c

\* strings.ToLower
ToLower(s) == [i \in 1..Len(s) |-> ToLowerChar(s[i])]

\* strings.ToUpper (used to build inputs only)
ToUpper(s) == [i \in 1..Len(s) |-> ToUpperChar(s[i])]

\* strings.Contains
Contains(s, substr) ==
    \E i \in 0..(Len(s) - Len(substr)) :
        SubSeq(s, i + 1, i + Len(substr)) = substr

(***************************************************************************)
(* errors.go: the sentinel errors. errors.New returns a distinct value on  *)
(* every call, so an error is its identity (id) together with its text.    *)
(***************************************************************************)
ErrNoHealthyUpstream ==
    [id |-> "ErrNoHealthyUpstream", text |->
      <<"n","o"," ","h","e","a","l","t","h","y"," ","u","p","s","t","e","a","d">>]

ErrExternal ==
    [id |-> "ErrExternal", text |->
      <<"e","x","t","e","r","n","a","l"," ","e","r","r","o","r">>]

ErrRateLimitExceeded ==
    [id |-> "ErrRateLimitExceeded", text |->
      <<"r","a","t","e"," ","l","i","m","i","t","s"," ","e","x","c","e","e","d","e","d">>]

ErrQuotaExceeded ==
    [id |-> "ErrQuotaExceeded", text |->
      <<"q","u","o","t","a"," ","e","x","c","e","e","d","e","d">>]

ErrConfiguration ==
    [id |-> "ErrConfiguration", text |->
      <<"c","o","n","f","i","g","u","r","a","t","i","o","n"," ","e","r","r","o","r">>]

ErrSystem ==
    [id |-> "ErrSystem", text |->
      <<"s","y","s","t","e","m"," ","e","r","r","o","r">>]

ErrInvalidRequest ==
    [id |-> "ErrInvalidRequest", text |->
      <<"i","n","v","a","l","i","d"," ","r","e","q","u","e","s","t">>]

ErrInvalidData ==
    [id |-> "ErrInvalidData", text |->
      <<"i","n","v","a","l","i","d"," ","d","a","t","a">>]

ErrAllotmentExceeded ==
    [id |-> "ErrAllotmentExceeded", text |->
      <<"a","l","l","o","t","m","e","n","t"," ","e","x","c","e","e","d","e","d">>]

ErrInsufficientAllotment ==
    [id |-> "ErrInsufficientAllotment", text |->
      <<"i","n","s","u","f","f","i","c","i","e","n","t"," ","a","l","l","o","t","m","e",
        "n","t">>]

ErrPriceHasIncreased ==
    [id |-> "ErrPriceHasIncreased", text |->
      <<"p","r","i","c","e"," ","h","a","s"," ","i","n","c","r","e","a","s","e","d">>]

ErrPriceHasChanged ==
    [id |-> "ErrPriceHasChanged", text |->
      <<"p","r","i","c","e"," ","h","a","s"," ","c","h","a","n","g","e","d">>]

ErrStopSales ==
    [id |-> "ErrStopSales", text |->
      <<"s","t","o","p"," ","s","a","l","e","s">>]

ErrBookingDoesNotExist ==
    [id |-> "ErrBookingDoesNotExist", text |->
      <<"b","o","o","k","i","n","g"," ","d","o","e","s"," ","n","o","t"," ","e","x","i",
        "s","t">>]

ErrBookingCannotBeCanceledAfterCheckIn ==
    [id |-> "ErrBookingCannotBeCanceledAfterCheckIn", text |->
      <<"c","a","n","n","o","t"," ","c","a","n","c","e","l"," ","a"," ","b","o","o","k",
        "i","n","g"," ","a","f","t","e","r"," ","t","h","e"," ","c","h","e","c","k",
        "-","i","n">>]

ErrBookingCannotBeCanceledOrModifiedWhenCheckInPast ==
    [id |-> "ErrBookingCannotBeCanceledOrModifiedWhenCheckInPast", text |->
      <<"c","a","n","n","o","t"," ","c","a","n","c","e","l","/","m","o","d","i","f","y",
        " ","a"," ","b","o","o","k","i","n","g"," ","w","h","i","c","h"," ","h","a",
        "s"," ","a"," ","c","h","e","c","k","-","i","n"," ","d","a","t","e"," ","i",
        "n"," ","t","h","e"," ","p","a","s","t">>]

ErrBookingCannotBeAmended ==
    [id |-> "ErrBookingCannotBeAmended", text |->
      <<"t","h","i","s"," ","b","o","o","k","i","n","g"," ","c","a","n","n","o","t"," ",
        "b","e"," ","a","m","e","n","d","e","d">>]

ErrBookingConfirmationError ==
    [id |-> "ErrBookingConfirmationError", text |->
      <<"b","o","o","k","i","n","g"," ","c","o","n","f","i","r","m","a","t","i","o","n",
        " ","e","r","r","o","r">>]

ErrMinimumStayViolated ==
    [id |-> "ErrMinimumStayViolated", text |->
      <<"m","i","n","i","m","u","m"," ","s","t","a","y"," ","v","i","o","l","a","t","e",
        "d">>]

ErrCodeIsInvalid ==
    [id |-> "ErrCodeIsInvalid", text |->
      <<"c","o","d","e"," ","i","s"," ","i","n","v","a","l","i","d">>]

ErrPleaseDoNotTryAgain ==
    [id |-> "ErrPleaseDoNotTryAgain", text |->
      <<"p","l","e","a","s","e"," ","d","o"," ","n","o","t"," ","r","e","t","r","y"," ",
        "a","g","a","i","n">>]

ErrHotelDoesNotAllowCancellation ==
    [id |-> "ErrHotelDoesNotAllowCancellation", text |->
      <<"h","o","t","e","l"," ","d","o","e","s"," ","n","o","t"," ","a","l","l","o","w",
        " ","c","a","n","c","e","l","l","a","t","i","o","n","s">>]

ErrReservationUnreachable ==
    [id |-> "ErrReservationUnreachable", text |->
      <<"r","e","s","e","r","v","a","t","i","o","n"," ","d","o","e","s"," ","n","o","t",
        " ","e","x","i","s","t"," ","o","r"," ","t","h","e"," ","a","g","e","n","c",
        "y"," ","d","o","e","s"," ","n","o","t"," ","a","c","c","e","s","s">>]

ErrUndefined ==
    [id |-> "ErrUndefined", text |->
      <<"u","n","d","e","f","i","n","e","d"," ","e","r","r","o","r">>]

\* The value errors.New("undefined error") builds inside decodeErrorMessage:
\* the text of ErrUndefined under an identity of its own.
NewUndefinedError == [id |-> "errors.New", text |-> ErrUndefined.text]

\* The sentinels decodeErrorMessage tests, in the order of its switch.
Catalog ==
    <<ErrExternal, ErrRateLimitExceeded, ErrQuotaExceeded, ErrConfiguration,
      ErrSystem, ErrInvalidRequest, ErrInvalidData, ErrAllotmentExceeded,
      ErrInsufficientAllotment, ErrPriceHasIncreased, ErrPriceHasChanged,
      ErrStopSales, ErrBookingDoesNotExist,
      ErrBookingCannotBeCanceledAfterCheckIn,
      ErrBookingCannotBeCanceledOrModifiedWhenCheckInPast,
      ErrBookingCannotBeAmended, ErrBookingConfirmationError,
      ErrMinimumStayViolated, ErrCodeIsInvalid, ErrPleaseDoNotTryAgain,
      ErrHotelDoesNotAllowCancellation, ErrReservationUnreachable>>

\* errorContains without the lower-casing of the message.
errorContainsCaseSensitive(s, e) == Contains(s, e.text)

errorContains(s, e) == Contains(ToLower(s), e.text)

RECURSIVE switchFrom(_, _)
\* The cases of decodeErrorMessage's switch from case i on, top to bottom.
switchFrom(m, i) ==
    IF i > Len(Catalog) THEN NewUndefinedError
    ELSE IF errorContains(m, Catalog[i]) THEN Catalog[i]
    ELSE switchFrom(m, i + 1)

decodeErrorMessage(m) == switchFrom(m, 1)

isRetryableError ==
    (ErrRateLimitExceeded :> TRUE) @@ (ErrQuotaExceeded :> TRUE)

\* A Go map read "v, _ := m[k]": the zero value for a missing key.
MapLookup(m, k) == IF k \in DOMAIN m THEN m[k] ELSE FALSE

\* The package-level map is as declared and no goroutine runs a call.
ConcurrencyIdle == catalog = isRetryableError /\ calls = << >>

(***************************************************************************)
(* Inputs of decodeErrorMessage: every catalog phrase alone, in lower and  *)
(* in upper case, and every concatenation of at most MaxParts fragments.   *)
(***************************************************************************)
MaxParts == 2

\* "rate limit exceeded": the singular, which is no catalog phrase.
RateLimitSingular ==
    <<"r","a","t","e"," ","l","i","m","i","t"," ","e","x","c","e","e","d","e","d">>

ForClient == <<" ","f","o","r"," ","c","l","i","e","n","t">>

RateLimitsTitleCase ==
    <<"R","a","t","e"," ","L","i","m","i","t","s"," ","E","x","c","e","e","d","e","d",
      ":"," ">>

Fragments ==
    { RateLimitSingular, ForClient, RateLimitsTitleCase,
      ErrExternal.text, ToUpper(ErrQuotaExceeded.text), ErrSystem.text,
      ErrBookingDoesNotExist.text, ToUpper(ErrReservationUnreachable.text) }

RECURSIVE Flatten(_)
Flatten(ss) == IF ss = << >> THEN << >> ELSE Head(ss) \o Flatten(Tail(ss))

Messages ==
    { Flatten(ps) : ps \in UNION { [1..n -> Fragments] : n \in 0..MaxParts } }
      \cup { Catalog[i].text : i \in DOMAIN Catalog }
      \cup { ToUpper(Catalog[i].text) : i \in DOMAIN Catalog }

InitClassify ==
    /\ msg \in Messages
    /\ cond = NoResult
    /\ resp = NoResult /\ unread = << >> /\ err = NoResult
    /\ geo = NoResult /\ geoErr = NoResult
    /\ inp = NoResult /\ out = NoResult /\ wire = << >> /\ pc = "idle"
    /\ ValidationIdle /\ CodecIdle
    /\ ConcurrencyIdle

\* One call of decodeErrorMessage(msg).
Classify ==
    /\ cond = NoResult
    /\ cond' = decodeErrorMessage(msg)
    /\ UNCHANGED <<msg, resp, unread, err, geo, geoErr, inp, out, wire, pc>>
    /\ UNCHANGED <<validationVars, codecVars>>
    /\ UNCHANGED concurrencyVars

NextClassify == Classify

SpecClassify == InitClassify /\ [][NextClassify]_vars

\* The order of conditions claim C6 names: the seven general conditions,
\* then the product conditions.
C6Order ==
    <<ErrExternal, ErrRateLimitExceeded, ErrQuotaExceeded, ErrConfiguration,
      ErrSystem, ErrInvalidRequest, ErrInvalidData,
      ErrAllotmentExceeded, ErrInsufficientAllotment, ErrPriceHasIncreased,
      ErrPriceHasChanged, ErrStopSales, ErrBookingDoesNotExist,
      ErrBookingCannotBeCanceledAfterCheckIn,
      ErrBookingCannotBeCanceledOrModifiedWhenCheckInPast,
      ErrBookingCannotBeAmended, ErrBookingConfirmationError,
      ErrMinimumStayViolated, ErrCodeIsInvalid, ErrPleaseDoNotTryAgain,
      ErrHotelDoesNotAllowCancellation, ErrReservationUnreachable>>

\* The positions in C6Order of the conditions whose phrase occurs in m,
\* letter case ignored.
C6Hits(m) ==
    { i \in DOMAIN C6Order : Contains(ToLower(m), C6Order[i].text) }

\* C6: decodeErrorMessage returns the earliest condition, in the fixed order
\* external, rate-limit, quota, configuration, system, invalid-request,
\* invalid-data, product conditions, whose phrase the lower-cased message
\* contains; the upper-cased message classifies the same; a message that
\* contains no phrase classifies as Undefined.
C6_FirstMatchWins ==
    cond # NoResult =>
        LET hits == C6Hits(msg) IN
        /\ hits # {} =>
              cond = C6Order[CHOOSE i \in hits : \A j \in hits : i <= j]
        /\ hits = {} =>
              /\ cond.text = ErrUndefined.text
              /\ \A i \in DOMAIN C6Order : cond # C6Order[i]
        /\ decodeErrorMessage(ToUpper(msg)).id = cond.id

\* C6 witness: a message in mixed case that contains the quota phrase before
\* the rate-limit phrase has been classified as rate-limit.
C6_Witness ==
    /\ cond = ErrRateLimitExceeded
    /\ msg = ToUpper(ErrQuotaExceeded.text) \o RateLimitsTitleCase

(***************************************************************************)
(* Response bodies. A body is the stream of JSON documents still unread;   *)
(* a document is abstracted to what encoding/json makes of it when it      *)
(* decodes into shortError and into Error:                                 *)
(*   kind "invalid"  not JSON (syntax error)                               *)
(*   kind "scalar"   a JSON array, number, string or boolean               *)
(*   kind "null"     the JSON null, which decodes into a struct as a no-op *)
(*   kind "object"   a JSON object; members other than error, auditData,   *)
(*                   code and message are ignored by the decoder           *)
(* and a member is absent, a string ("str"), of a JSON type the Go field   *)
(* does not take ("bad"), or given twice, a string and then a value of a   *)
(* wrong type ("strThenBad"): encoding/json stores the string, goes on and *)
(* reports the type error at the end.                                      *)
(***************************************************************************)
Absent == [t |-> "absent", v |-> EmptyString]

Bad == [t |-> "bad", v |-> EmptyString]

Str(s) == [t |-> "str", v |-> s]

StrThenBad(s) == [t |-> "strThenBad", v |-> s]

AbsentCode == [t |-> "absent", v |-> ""]

BadCode == [t |-> "bad", v |-> ""]

Code(c) == [t |-> "str", v |-> c]

AbsentAudit == [t |-> "absent", v |-> Nil]

BadAudit == [t |-> "bad", v |-> Nil]

Audit(a) == [t |-> "obj", v |-> [id |-> a]]

Object(e, a, c, m, x) ==
    [kind |-> "object", error |-> e, auditData |-> a, code |-> c,
     message |-> m, extra |-> x]

NonObject(k) ==
    [kind |-> k, error |-> Absent, auditData |-> AbsentAudit,
     code |-> AbsentCode, message |-> Absent, extra |-> FALSE]

\* {"error": <e>}
ShortDoc(e) == Object(e, AbsentAudit, AbsentCode, Absent, FALSE)

\* {"auditData": <a>, "code": <c>, "message": <m>}
LongDoc(a, c, m) == Object(Absent, a, c, m, FALSE)

\* {"unexpected":"shape"}
UnexpectedDoc == Object(Absent, AbsentAudit, AbsentCode, Absent, TRUE)

\* What a JSON member leaves in a Go field of type string, ErrorCode and
\* *AuditData: the zero value unless the member held a value of that type.
StoredString(f) == IF f.t \in {"str", "strThenBad"} THEN f.v ELSE EmptyString

StoredCode(f) == IF f.t = "str" THEN f.v ELSE ""

StoredAudit(f) == IF f.t = "obj" THEN f.v ELSE Nil

\* Whether decoding the member reports no error.
Decodes(f) == f.t \in {"absent", "str", "obj"}

\* json.NewDecoder(body).Decode(&shortErr): the error it returns (ok = nil)
\* and shortErr.Error afterwards.
decodeShort(body) ==
    IF body = << >> THEN [ok |-> FALSE, Error |-> EmptyString]
    ELSE LET d == Head(body) IN
         IF d.kind = "null" THEN [ok |-> TRUE, Error |-> EmptyString]
         ELSE IF d.kind = "object"
              THEN [ok |-> Decodes(d.error), Error |-> StoredString(d.error)]
         ELSE [ok |-> FALSE, Error |-> EmptyString]

\* json.NewDecoder(body).Decode(&longErr)
decodeLong(body) ==
    IF body = << >>
    THEN [ok |-> FALSE, Audit |-> Nil, Code |-> "", Message |-> EmptyString]
    ELSE LET d == Head(body) IN
         IF d.kind = "null"
         THEN [ok |-> TRUE, Audit |-> Nil, Code |-> "", Message |-> EmptyString]
         ELSE IF d.kind = "object"
              THEN [ok |-> Decodes(d.auditData) /\ Decodes(d.code)
                             /\ Decodes(d.message),
                    Audit |-> StoredAudit(d.auditData), Code |-> StoredCode(d.code),
                    Message |-> StoredString(d.message)]
         ELSE [ok |-> FALSE, Audit |-> Nil, Code |-> "", Message |-> EmptyString]

\* How many documents a json.Decoder may take off the stream in one Decode:
\* the document it decodes and whatever its buffered reads took with it.
ReadAhead(body) == IF body = << >> THEN {0} ELSE 1..Len(body)

Drop(body, k) == SubSeq(body, k + 1, Len(body))

\* Mutant of decodeError: the long branch looks up the long message.
decodeErrorLongKeyed(r, k1, k2) ==
    LET short == decodeShort(r.Body)
        rest1 == Drop(r.Body, k1)
        long  == decodeLong(rest1)
        rest2 == Drop(rest1, k2)
    IN IF short.ok
       THEN [err |-> [Audit |-> Nil, Code |-> "", Message |-> short.Error,
                      StatusCode |-> r.StatusCode,
                      IsRetryable |-> MapLookup(isRetryableError,
                                         decodeErrorMessage(short.Error))],
             unread |-> rest1]
       ELSE IF long.ok
       THEN [err |-> [Audit |-> long.Audit, Code |-> long.Code,
                      Message |-> long.Message,
                      StatusCode |-> r.StatusCode,
                      IsRetryable |-> MapLookup(isRetryableError,
                                         decodeErrorMessage(long.Message))],
             unread |-> rest2]
       ELSE [err |-> ErrUndefined, unread |-> rest2]

\* decodeError(resp), with k1 and k2 the documents the first and the second
\* decoder take off resp.Body. Returns the error and the body left unread.
decodeError(r, k1, k2) ==
    LET short == decodeShort(r.Body)
        rest1 == Drop(r.Body, k1)
        long  == decodeLong(rest1)
        rest2 == Drop(rest1, k2)
        isRetryable == MapLookup(isRetryableError, decodeErrorMessage(short.Error))
    IN IF short.ok
       THEN [err |-> [Audit |-> Nil, Code |-> "", Message |-> short.Error,
                      StatusCode |-> r.StatusCode, IsRetryable |-> isRetryable],
             unread |-> rest1]
       ELSE IF long.ok
       THEN [err |-> [Audit |-> long.Audit, Code |-> long.Code,
                      Message |-> long.Message,
                      StatusCode |-> r.StatusCode, IsRetryable |-> isRetryable],
             unread |-> rest2]
       ELSE [err |-> ErrUndefined, unread |-> rest2]

\* Whether a Go error value is an *Error (the type assertion err.(*Error)).
IsErrorPtr(e) == "StatusCode" \in DOMAIN e

IsErrorRetryable(e) == IF IsErrorPtr(e) THEN e.IsRetryable ELSE FALSE

(***************************************************************************)
(* Inputs of decodeError: a status code and a body of at most MaxDocs      *)
(* documents.                                                              *)
(***************************************************************************)
MaxDocs == 2

\* "rate limit exceeded for client"
RateLimitForClient == RateLimitSingular \o ForClient

ErrorTexts ==
    { RateLimitForClient, RateLimitsTitleCase,
      ErrQuotaExceeded.text, ErrBookingDoesNotExist.text }

ShortDocs ==
    { ShortDoc(Str(s)) : s \in ErrorTexts }
      \cup { ShortDoc(Bad), ShortDoc(StrThenBad(ErrQuotaExceeded.text)) }

\* {"code":"PRODUCT_ERROR","message":"booking does not exist"}
BookingDoesNotExistDoc ==
    LongDoc(AbsentAudit, Code("PRODUCT_ERROR"), Str(ErrBookingDoesNotExist.text))

LongDocs ==
    { BookingDoesNotExistDoc,
      LongDoc(Audit("audit1"), Code("PRODUCT_ERROR"), Str(ErrQuotaExceeded.text)),
      LongDoc(AbsentAudit, AbsentCode, Str(ErrQuotaExceeded.text)),
      LongDoc(AbsentAudit, Code("SYSTEM_ERROR"), Absent),
      LongDoc(AbsentAudit, Code("PRODUCT_ERROR"), Bad),
      LongDoc(BadAudit, Code("PRODUCT_ERROR"), Str(ErrQuotaExceeded.text)) }

\* {"error": 429, "code": "SYSTEM_ERROR", "message": "quota exceeded"}
MixedDoc ==
    Object(Bad, AbsentAudit, Code("SYSTEM_ERROR"), Str(ErrQuotaExceeded.text), FALSE)

Docs ==
    ShortDocs \cup LongDocs
      \cup { MixedDoc, UnexpectedDoc,
             NonObject("invalid"), NonObject("scalar"), NonObject("null") }

Bodies == UNION { [1..n -> Docs] : n \in 0..MaxDocs }

StatusCodes == {200, 429}

Responses == [StatusCode : StatusCodes, Body : Bodies]

InitDecode ==
    /\ resp \in Responses
    /\ unread = resp.Body
    /\ err = NoResult
    /\ msg = EmptyString /\ cond = NoResult
    /\ geo = NoResult /\ geoErr = NoResult
    /\ inp = NoResult /\ out = NoResult /\ wire = << >> /\ pc = "idle"
    /\ ValidationIdle /\ CodecIdle
    /\ ConcurrencyIdle

\* One call of decodeError(resp).
DecodeError ==
    /\ err = NoResult
    /\ \E k1 \in ReadAhead(resp.Body) :
       \E k2 \in ReadAhead(Drop(resp.Body, k1)) :
          LET r == decodeError(resp, k1, k2) IN
          /\ err' = r.err
          /\ unread' = r.unread
    /\ UNCHANGED <<msg, cond, resp, geo, geoErr, inp, out, wire, pc>>
    /\ UNCHANGED <<validationVars, codecVars>>
    /\ UNCHANGED concurrencyVars

NextDecode == DecodeError

SpecDecode == InitDecode /\ [][NextDecode]_vars

\* The two error-body shapes of the upstream API, for a body that is one
\* document: the short shape has an "error" text, the long shape has no
\* "error" member and a well-formed auditData, code or message.
IsShortShape(body) ==
    /\ Len(body) = 1
    /\ body[1].kind = "object"
    /\ body[1].error.t = "str"

IsLongShape(body) ==
    /\ Len(body) = 1
    /\ body[1].kind = "object"
    /\ body[1].error.t = "absent"
    /\ Decodes(body[1].auditData) /\ Decodes(body[1].code)
    /\ Decodes(body[1].message)
    /\ \/ body[1].auditData.t # "absent"
       \/ body[1].code.t # "absent"
       \/ body[1].message.t # "absent"

Decoded == err # NoResult

\* The short-shape texts that report a rate-limit condition.
RateLimitTexts == { RateLimitForClient, RateLimitsTitleCase }

\* C1: for a short-shape body whose text reports a rate-limit condition, in
\* particular {"error":"rate limit exceeded for client"}, decodeError returns
\* an Error classified as rate-limit with IsRetryable = TRUE.
C1_RateLimitRetryable ==
    (Decoded /\ \E s \in RateLimitTexts : resp.Body = <<ShortDoc(Str(s))>>) =>
        /\ IsErrorPtr(err)
        /\ decodeErrorMessage(err.Message) = ErrRateLimitExceeded
        /\ err.IsRetryable

\* C2: for every body that is neither short-shape nor long-shape, such as
\* {"unexpected":"shape"}, decodeError returns ErrUndefined, which is not
\* retryable.
C2_UnknownShapeUndefined ==
    (Decoded /\ Len(resp.Body) = 1
        /\ ~IsShortShape(resp.Body) /\ ~IsLongShape(resp.Body)) =>
        /\ err = ErrUndefined
        /\ ~IsErrorRetryable(err)

\* C3: for the long-shape body
\* {"code":"PRODUCT_ERROR","message":"booking does not exist"} decodeError
\* returns an Error whose message classifies as booking-does-not-exist and
\* whose IsRetryable is FALSE.
C3_BookingDoesNotExist ==
    (Decoded /\ resp.Body = <<BookingDoesNotExistDoc>>) =>
        /\ IsErrorPtr(err)
        /\ decodeErrorMessage(err.Message) = ErrBookingDoesNotExist
        /\ ~err.IsRetryable

\* C4: for every failed response the Error decodeError returns has the
\* response's status code; for a long-shape body it carries the body's
\* auditData, code and message unchanged; for a short-shape body its Audit is
\* nil.
C4_StatusAndAudit ==
    (Decoded /\ resp.StatusCode > 399) =>
        /\ IsErrorPtr(err) => err.StatusCode = resp.StatusCode
        /\ IsLongShape(resp.Body) =>
              /\ IsErrorPtr(err)
              /\ err.Audit = StoredAudit(resp.Body[1].auditData)
              /\ err.Code = StoredCode(resp.Body[1].code)
              /\ err.Message = StoredString(resp.Body[1].message)
        /\ IsShortShape(resp.Body) =>
              /\ IsErrorPtr(err)
              /\ err.Audit = Nil

\* C5: for every Error decodeError returns, from either shape, IsRetryable is
\* TRUE exactly when its Message classifies as rate-limit-exceeded or
\* quota-exceeded.
C5_RetryableIffClassified ==
    (Decoded /\ IsErrorPtr(err)) =>
        (err.IsRetryable <=>
            decodeErrorMessage(err.Message)
                \in {ErrRateLimitExceeded, ErrQuotaExceeded})

(***************************************************************************)
(* Validation layer (booking.go).                                          *)
(***************************************************************************)
\* A *ValidationError; fields the code leaves out hold Go's zero value.
ValidationError(fieldName, required, min, max, allow) ==
    [FieldName |-> fieldName, Required |-> required,
     Min |-> min, Max |-> max, Allow |-> allow]

UnitMiles == "mi"

UnitKilometers == "km"

\* Largest radius Geolocation.Validate accepts.
RadiusLimit == 200

\* Geolocation.Validate with ">=" for ">" in the radius check.
GeolocationValidateOffByOne(g) ==
    IF g.Latitude = 0
    THEN ValidationError("Latitude", TRUE, 0, 0, << >>)
    ELSE IF g.Longitude = 0
    THEN ValidationError("Longitude", TRUE, 0, 0, << >>)
    ELSE IF g.Radius >= RadiusLimit
    THEN ValidationError("Radius", FALSE, 0, RadiusLimit, << >>)
    ELSE IF g.Unit # "" /\ g.Unit # UnitMiles /\ g.Unit # UnitKilometers
    THEN ValidationError("Unit", FALSE, 0, 0, <<UnitMiles, UnitKilometers>>)
    ELSE NoError

\* func (geo *Geolocation) Validate() error
GeolocationValidate(g) ==
    IF g.Latitude = 0
    THEN ValidationError("Latitude", TRUE, 0, 0, << >>)
    ELSE IF g.Longitude = 0
    THEN ValidationError("Longitude", TRUE, 0, 0, << >>)
    ELSE IF g.Radius > RadiusLimit
    THEN ValidationError("Radius", FALSE, 0, RadiusLimit, << >>)
    ELSE IF g.Unit # "" /\ g.Unit # UnitMiles /\ g.Unit # UnitKilometers
    THEN ValidationError("Unit", FALSE, 0, 0, <<UnitMiles, UnitKilometers>>)
    ELSE NoError

\* Inputs of Geolocation.Validate: radii from -1 to MaxRadius, coordinates
\* around zero (whole degrees), and units inside and outside the enum.
MaxRadius == 202

Coordinates == {-1, 0, 1}

Units == {"", UnitMiles, UnitKilometers, "m", "KM"}

Geolocations ==
    [Latitude : Coordinates, Longitude : Coordinates,
     Radius : -1..MaxRadius, Unit : Units]

InitGeo ==
    /\ geo \in Geolocations
    /\ geoErr = NoResult
    /\ msg = EmptyString /\ cond = NoResult
    /\ resp = NoResult /\ unread = << >> /\ err = NoResult
    /\ inp = NoResult /\ out = NoResult /\ wire = << >> /\ pc = "idle"
    /\ ValidationIdle /\ CodecIdle
    /\ ConcurrencyIdle

\* One call of geo.Validate().
ValidateGeolocation ==
    /\ geoErr = NoResult
    /\ geoErr' = GeolocationValidate(geo)
    /\ UNCHANGED <<msg, cond, resp, unread, err, geo, inp, out, wire, pc>>
    /\ UNCHANGED <<validationVars, codecVars>>
    /\ UNCHANGED concurrencyVars

NextGeo == ValidateGeolocation

SpecGeo == InitGeo /\ [][NextGeo]_vars

\* A geolocation whose required coordinates are set.
HasCoordinates(g) == g.Latitude # 0 /\ g.Longitude # 0

\* C9 as stated: Geolocation.Validate rejects radius 201, accepts radius 200
\* (coordinates set, unit mi or km), and rejects every unit value that is
\* not mi or km.
C9_AsStated ==
    geoErr # NoResult =>
        /\ geo.Radius = 201 => geoErr # NoError
        /\ (geo.Radius = 200 /\ HasCoordinates(geo)
               /\ geo.Unit \in {UnitMiles, UnitKilometers}) => geoErr = NoError
        /\ geo.Unit \notin {UnitMiles, UnitKilometers} => geoErr # NoError

\* C9 amended: Geolocation.Validate rejects radius 201, accepts radius 200
\* when the coordinates are set and the unit is empty, mi or km, and rejects
\* every non-empty unit value that is not mi or km; it accepts the empty
\* (unset) unit.
C9_GeolocationValidate ==
    geoErr # NoResult =>
        /\ geo.Radius = 201 => geoErr # NoError
        /\ (geo.Radius = 200 /\ HasCoordinates(geo)
               /\ geo.Unit \in {"", UnitMiles, UnitKilometers}) => geoErr = NoError
        /\ geo.Unit \notin {"", UnitMiles, UnitKilometers} => geoErr # NoError
        /\ (geo.Unit = "" /\ HasCoordinates(geo) /\ geo.Radius <= 200) =>
              geoErr = NoError

\* C9 witness: a geolocation of radius 200 with the unit left empty has been
\* validated and accepted.
C9_Witness ==
    /\ geoErr = NoError
    /\ geo.Radius = 200
    /\ geo.Unit = ""

\* Largest ShiftDays Stay.Validate accepts.
ShiftDaysLimit == 5

\* errors.New("ShiftDays is invalid (should <=5)")
ShiftDaysError ==
    [id |-> "errors.New", text |->
      <<"S","h","i","f","t","D","a","y","s"," ","i","s"," ","i","n","v","a","l","i","d",
        " ","(","s","h","o","u","l","d"," ","<","=","5",")">>]

\* Stay.Validate with ">=" for ">".
StayValidateOffByOne(stay) ==
    IF stay.ShiftDays >= ShiftDaysLimit THEN ShiftDaysError ELSE NoError

\* func (stay *Stay) Validate() error
StayValidate(stay) ==
    IF stay.ShiftDays > ShiftDaysLimit THEN ShiftDaysError ELSE NoError

MaxHotelsLimit == 2000

MaxRoomsLimit == 50

CategoryLimit == 5

\* func (filter *Filter) Validate() error
FilterValidate(filter) ==
    IF filter.MaxHotels < 1 \/ filter.MaxHotels > MaxHotelsLimit
    THEN ValidationError("MaxHotels", FALSE, 1, MaxHotelsLimit, << >>)
    ELSE IF filter.MaxRooms < 1 \/ filter.MaxRooms > MaxRoomsLimit
    THEN ValidationError("MaxRooms", FALSE, 1, MaxRoomsLimit, << >>)
    ELSE IF filter.MinCategory < 1 \/ filter.MinCategory > CategoryLimit
    THEN ValidationError("MinCategory", FALSE, 1, CategoryLimit, << >>)
    ELSE IF filter.MaxCategory < 1 \/ filter.MaxCategory > CategoryLimit
    THEN ValidationError("MaxCategory", FALSE, 1, CategoryLimit, << >>)
    ELSE NoError

HotelCodesLimit == 2000

\* func (f *FilterHotel) Validate() error. A FilterHotel is modelled by the
\* number of its HotelCodes, all the code reads of it.
FilterHotelValidate(f) ==
    IF f.HotelCodesLen > HotelCodesLimit
    THEN ValidationError("FilterHotel.Hotel", FALSE, 0, HotelCodesLimit, << >>)
    ELSE NoError

\* ListAvailableHotelsInput.Validate with the Hotels check moved in front of
\* the Filter check.
ListAvailableHotelsInputValidateHotelsFirst(i) ==
    IF StayValidate(i.Stay) # NoError THEN StayValidate(i.Stay)
    ELSE IF FilterHotelValidate(i.Hotels) # NoError
    THEN FilterHotelValidate(i.Hotels)
    ELSE IF i.Filter # Nil /\ FilterValidate(i.Filter) # NoError
    THEN FilterValidate(i.Filter)
    ELSE NoError

\* func (inp *ListAvailableHotelsInput) Validate() error. It validates Stay,
\* Filter and Hotels; it makes no call of inp.Geolocation.Validate.
ListAvailableHotelsInputValidate(i) ==
    IF StayValidate(i.Stay) # NoError THEN StayValidate(i.Stay)
    ELSE IF i.Filter # Nil /\ FilterValidate(i.Filter) # NoError
    THEN FilterValidate(i.Filter)
    ELSE IF FilterHotelValidate(i.Hotels) # NoError
    THEN FilterHotelValidate(i.Hotels)
    ELSE NoError

(***************************************************************************)
(* ListAvailableHotels (booking.go). The request builder and the HTTP      *)
(* exchange belong to the clientx toolkit; what this repository gives it   *)
(* is the request (method, path, body) and the error-decode callback.      *)
(***************************************************************************)
\* Largest status code the error-decode callback reports as no error.
LastSuccessStatus == 399

\* The callback given to WithErrorDecode:
\*   return resp.StatusCode > 399, decodeError(resp)
\* Both results are computed for every response.
errorDecode(r, k1, k2) ==
    LET d == decodeError(r, k1, k2) IN
    [isError |-> r.StatusCode > LastSuccessStatus, err |-> d.err,
     unread |-> d.unread]

\* Post("/hotel-api/1.0/hotels", inp, ...)
Request(i) == [Method |-> "POST", Path |-> "/hotel-api/1.0/hotels", Body |-> i]

\* Inputs of ListAvailableHotels: ShiftDays up to MaxShiftDays, no filter or
\* a filter inside or outside its ranges, a list of hotel codes below or
\* above its limit, and no geolocation or one inside or outside its rules.
MaxShiftDays == 6

MaxRequests == 2

Filters ==
    { Nil,
      [MaxHotels |-> 10, MaxRooms |-> 1, MinCategory |-> 1, MaxCategory |-> 5],
      [MaxHotels |-> 0, MaxRooms |-> 1, MinCategory |-> 1, MaxCategory |-> 5] }

GeolocationSamples ==
    { Nil,
      [Latitude |-> 1, Longitude |-> 1, Radius |-> 200, Unit |-> UnitKilometers],
      [Latitude |-> 1, Longitude |-> 1, Radius |-> 201, Unit |-> UnitKilometers],
      [Latitude |-> 1, Longitude |-> 1, Radius |-> 200, Unit |-> "m"] }

ListAvailableHotelsInputs ==
    [Stay : [ShiftDays : 4..MaxShiftDays],
     Filter : Filters,
     Hotels : [HotelCodesLen : {2, 2001}],
     Geolocation : GeolocationSamples]

\* Status codes of the responses to a call: success, the two sides of the
\* callback's threshold, and a rate-limit answer.
ApiStatusCodes == {200, 399, 400, 429}

ApiResponses ==
    [StatusCode : ApiStatusCodes,
     Body : { <<ShortDoc(Str(ErrQuotaExceeded.text))>>, <<BookingDoesNotExistDoc>> }]

Init ==
    /\ inp = NoResult /\ out = NoResult /\ wire = << >> /\ pc = "idle"
    /\ resp = NoResult /\ unread = << >> /\ err = NoResult
    /\ msg = EmptyString /\ cond = NoResult
    /\ geo = NoResult /\ geoErr = NoResult
    /\ ValidationIdle /\ CodecIdle
    /\ ConcurrencyIdle

\* api.ListAvailableHotels(ctx, i) up to the HTTP exchange: validation, and
\* the request handed to the transport when validation passes.
ListAvailableHotelsCall ==
    /\ pc = "idle"
    /\ Len(wire) < MaxRequests
    /\ \E i \in ListAvailableHotelsInputs :
          /\ inp' = i
          /\ IF ListAvailableHotelsInputValidate(i) # NoError
             THEN /\ out' = [resp |-> Nil,
                             err |-> ListAvailableHotelsInputValidate(i)]
                  /\ UNCHANGED <<wire, pc>>
             ELSE /\ out' = NoResult
                  /\ wire' = Append(wire, Request(i))
                  /\ pc' = "waiting"
    /\ resp' = NoResult /\ unread' = << >> /\ err' = NoResult
    /\ UNCHANGED <<msg, cond, geo, geoErr>>
    /\ UNCHANGED <<validationVars, codecVars>>
    /\ UNCHANGED concurrencyVars

\* The response arrives: the transport runs the error-decode callback on it
\* and the call returns the callback's error when it reports one.
ListAvailableHotelsReturn ==
    /\ pc = "waiting"
    /\ \E r \in ApiResponses :
       \E k1 \in ReadAhead(r.Body) :
       \E k2 \in ReadAhead(Drop(r.Body, k1)) :
          LET d == errorDecode(r, k1, k2) IN
          /\ resp' = r
          /\ unread' = d.unread
          /\ err' = d.err
          /\ out' = IF d.isError
                    THEN [resp |-> Nil, err |-> d.err]
                    ELSE [resp |-> [id |-> "ListAvailableHotelsResponse"],
                          err |-> NoError]
    /\ pc' = "idle"
    /\ UNCHANGED <<msg, cond, geo, geoErr, inp, wire>>
    /\ UNCHANGED <<validationVars, codecVars>>
    /\ UNCHANGED concurrencyVars

Next == ListAvailableHotelsCall \/ ListAvailableHotelsReturn

Spec == Init /\ [][Next]_vars

\* What the Filter and Hotels checks of a call let through: no filter or a
\* filter within its ranges, and at most 2000 hotel codes.
C8_RestAccepted(i) ==
    /\ \/ i.Filter = Nil
       \/ /\ i.Filter.MaxHotels \in 1..2000
          /\ i.Filter.MaxRooms \in 1..50
          /\ i.Filter.MinCategory \in 1..5
          /\ i.Filter.MaxCategory \in 1..5
    /\ i.Hotels.HotelCodesLen <= 2000

\* C8: a call of ListAvailableHotels with ShiftDays above 5 returns an error
\* and sends no request; with ShiftDays = 5 the stay check passes (the call
\* never returns the ShiftDays error) and the request is sent, exactly when
\* the Filter and Hotels checks that follow the stay check let it through.
C8_ShiftDaysChecked ==
    [][ pc = "idle" =>
        /\ inp'.Stay.ShiftDays > 5 =>
              /\ wire' = wire /\ pc' = "idle"
              /\ out'.resp = Nil
              /\ out'.err = ShiftDaysError
        /\ inp'.Stay.ShiftDays = 5 =>
              /\ out' # NoResult => out'.err # ShiftDaysError
              /\ C8_RestAccepted(inp') <=>
                    /\ wire' = Append(wire, Request(inp'))
                    /\ pc' = "waiting" ]_vars

\* C8 witness: a call with ShiftDays = 5 has put its request on the wire.
C8_Witness ==
    /\ pc = "waiting"
    /\ inp.Stay.ShiftDays = 5
    /\ wire[Len(wire)] = Request(inp)

\* A geolocation that breaks a rule of Geolocation.Validate named in C10.
BreaksGeolocationRule(g) ==
    g.Radius > 200 \/ g.Unit \notin {UnitMiles, UnitKilometers}

\* C10: no request whose Geolocation has a radius above 200 or a unit
\* outside {mi, km} is ever sent over the wire.
C10_NoInvalidGeolocationSent ==
    \A n \in DOMAIN wire :
        wire[n].Body.Geolocation # Nil =>
            ~BreaksGeolocationRule(wire[n].Body.Geolocation)

(***************************************************************************)
(* The validation layer as a whole: one Validate call on a receiver of any *)
(* of the six validated types.                                             *)
(***************************************************************************)
\* The variables of the error layer and of the API calls, at rest.
ApiIdle ==
    /\ msg = EmptyString /\ cond = NoResult
    /\ resp = NoResult /\ unread = << >> /\ err = NoResult
    /\ geo = NoResult /\ geoErr = NoResult
    /\ inp = NoResult /\ out = NoResult /\ wire = << >> /\ pc = "idle"

apiVars == <<msg, cond, resp, unread, err, geo, geoErr, inp, out, wire, pc>>

IncludeHotelsWebOnly == "webOnly"

IncludeHotelsNotOnSale == "notOnSale"

\* const maxToParam = 1000
maxToParam == 1000

\* errors.New("From param < 1")
FromParamError == [id |-> "errors.New", text |-> <<"F","r","o","m"," ","p","a","r","a","m"," ","<"," ","1">>]

\* errors.New("To param > 1000")
ToParamError == [id |-> "errors.New", text |-> <<"T","o"," ","p","a","r","a","m"," ",">"," ","1","0","0","0">>]

\* errors.New("IncludeHotels invalid, only webOnly, notOnSale supported")
IncludeHotelsError ==
    [id |-> "errors.New",
     text |-> <<"I","n","c","l","u","d","e","H","o","t","e","l","s"," ","i","n","v","a","l","i","d",","," ","o","n","l","y"," ","w","e","b","O","n","l","y",","," ","n","o","t","O","n","S","a","l","e"," ","s","u","p","p","o","r","t","e","d">>]

\* Mutant of ListHotelsInput.Validate: the To rule left out.
ListHotelsInputValidateNoTo(i) ==
    IF i.From # 0 /\ i.From < 1
    THEN FromParamError
    ELSE IF /\ i.IncludeHotels # ""
            /\ i.IncludeHotels # IncludeHotelsWebOnly
            /\ i.IncludeHotels # IncludeHotelsNotOnSale
    THEN IncludeHotelsError
    ELSE NoError

\* func (inp *ListHotelsInput) Validate() error
ListHotelsInputValidate(i) ==
    IF i.From # 0 /\ i.From < 1
    THEN FromParamError
    ELSE IF i.To # 0 /\ i.To > maxToParam
    THEN ToParamError
    ELSE IF /\ i.IncludeHotels # ""
            /\ i.IncludeHotels # IncludeHotelsWebOnly
            /\ i.IncludeHotels # IncludeHotelsNotOnSale
    THEN IncludeHotelsError
    ELSE NoError

\* Values of an int field around its accepted range 1..max: unset (0), its
\* two ends, and above it.
RangeSamples(max) == {0, 1, max, max + 1}

FilterSamples ==
    [MaxHotels : RangeSamples(MaxHotelsLimit), MaxRooms : RangeSamples(MaxRoomsLimit),
     MinCategory : RangeSamples(CategoryLimit),
     MaxCategory : RangeSamples(CategoryLimit)]

FilterHotelSamples ==
    [HotelCodesLen : {0, 1, HotelCodesLimit, HotelCodesLimit + 1}]

StaySamples == [ShiftDays : 0..MaxShiftDays]

GeolocationSubjects ==
    [Latitude : {0, 1}, Longitude : {0, 1},
     Radius : {0, RadiusLimit, RadiusLimit + 1},
     Unit : {"", UnitMiles, UnitKilometers, "m"}]

ListAvailableHotelsInputSamples ==
    [Stay : [ShiftDays : {ShiftDaysLimit, MaxShiftDays}],
     Filter : {Nil} \cup FilterSamples,
     Hotels : [HotelCodesLen : {HotelCodesLimit, HotelCodesLimit + 1}],
     Geolocation : {Nil}]

ListHotelsInputSamples ==
    [From : {-1, 0, 1}, To : {0, maxToParam, maxToParam + 1},
     IncludeHotels : {"", IncludeHotelsWebOnly, IncludeHotelsNotOnSale, "all"}]

InitValidate == ApiIdle /\ ValidationIdle /\ CodecIdle /\ ConcurrencyIdle

\* stay.Validate()
ValidateStay ==
    /\ verdict = NoResult
    /\ \E s \in StaySamples :
          /\ subject' = [type |-> "Stay", value |-> s]
          /\ verdict' = StayValidate(s)
    /\ UNCHANGED <<apiVars, codecVars>>
    /\ UNCHANGED concurrencyVars

\* geo.Validate()
ValidateGeolocationSubject ==
    /\ verdict = NoResult
    /\ \E g \in GeolocationSubjects :
          /\ subject' = [type |-> "Geolocation", value |-> g]
          /\ verdict' = GeolocationValidate(g)
    /\ UNCHANGED <<apiVars, codecVars>>
    /\ UNCHANGED concurrencyVars

\* filter.Validate()
ValidateFilter ==
    /\ verdict = NoResult
    /\ \E f \in FilterSamples :
          /\ subject' = [type |-> "Filter", value |-> f]
          /\ verdict' = FilterValidate(f)
    /\ UNCHANGED <<apiVars, codecVars>>
    /\ UNCHANGED concurrencyVars

\* f.Validate() on a FilterHotel
ValidateFilterHotel ==
    /\ verdict = NoResult
    /\ \E f \in FilterHotelSamples :
          /\ subject' = [type |-> "FilterHotel", value |-> f]
          /\ verdict' = FilterHotelValidate(f)
    /\ UNCHANGED <<apiVars, codecVars>>
    /\ UNCHANGED concurrencyVars

\* inp.Validate() on a ListAvailableHotelsInput
ValidateAvailabilityInput ==
    /\ verdict = NoResult
    /\ \E i \in ListAvailableHotelsInputSamples :
          /\ subject' = [type |-> "ListAvailableHotelsInput", value |-> i]
          /\ verdict' = ListAvailableHotelsInputValidate(i)
    /\ UNCHANGED <<apiVars, codecVars>>
    /\ UNCHANGED concurrencyVars

\* inp.Validate() on a ListHotelsInput
ValidateListHotelsInput ==
    /\ verdict = NoResult
    /\ \E i \in ListHotelsInputSamples :
          /\ subject' = [type |-> "ListHotelsInput", value |-> i]
          /\ verdict' = ListHotelsInputValidate(i)
    /\ UNCHANGED <<apiVars, codecVars>>
    /\ UNCHANGED concurrencyVars

NextValidate ==
    \/ ValidateStay
    \/ ValidateGeolocationSubject
    \/ ValidateFilter
    \/ ValidateFilterHotel
    \/ ValidateAvailabilityInput
    \/ ValidateListHotelsInput

SpecValidate == InitValidate /\ [][NextValidate]_vars

\* A Validate call has returned an error.
Rejected == verdict # NoResult /\ verdict # NoError

\* The error is a *ValidationError.
IsValidationError(e) == "FieldName" \in DOMAIN e

\* C11: every rejection of the validation layer (Stay, Geolocation, Filter,
\* FilterHotel, ListAvailableHotelsInput, ListHotelsInput) is a
\* ValidationError that names the offending field.
C11_UniformValidationError ==
    Rejected => IsValidationError(verdict) /\ verdict.FieldName # ""

\* The rules of ListAvailableHotelsInput.Validate in the order C12 gives
\* them, each with the field its fault names.
C12Rules(i) ==
    << [violated |-> i.Stay.ShiftDays > 5, field |-> "ShiftDays"],
       [violated |-> i.Filter # Nil /\ i.Filter.MaxHotels \notin 1..2000,
        field |-> "MaxHotels"],
       [violated |-> i.Filter # Nil /\ i.Filter.MaxRooms \notin 1..50,
        field |-> "MaxRooms"],
       [violated |-> i.Filter # Nil /\ i.Filter.MinCategory \notin 1..5,
        field |-> "MinCategory"],
       [violated |-> i.Filter # Nil /\ i.Filter.MaxCategory \notin 1..5,
        field |-> "MaxCategory"],
       [violated |-> i.Hotels.HotelCodesLen > 2000,
        field |-> "FilterHotel.Hotel"] >>

\* The field a fault is about.
FaultField(e) ==
    IF IsValidationError(e) THEN e.FieldName
    ELSE IF e = ShiftDaysError THEN "ShiftDays"
    ELSE ""

\* C12: ListAvailableHotelsInput.Validate checks Stay, then the Filter rules
\* (MaxHotels, MaxRooms, MinCategory, MaxCategory, only with a Filter
\* present), then Hotels; it returns the fault of the first violated rule
\* and nil exactly when no rule is violated.
C12_FailFast ==
    (verdict # NoResult /\ subject.type = "ListAvailableHotelsInput") =>
        LET rules == C12Rules(subject.value)
            violated == { n \in DOMAIN rules : rules[n].violated }
        IN IF violated = {}
           THEN verdict = NoError
           ELSE /\ verdict # NoError
                /\ \E n \in violated :
                      /\ \A k \in violated : n <= k
                      /\ FaultField(verdict) = rules[n].field

\* C12 witness: an input that violates both the MaxRooms rule and the Hotels
\* rule has been validated, and the fault returned is the MaxRooms one.
C12_Witness ==
    /\ verdict # NoResult
    /\ subject.type = "ListAvailableHotelsInput"
    /\ subject.value.Filter # Nil
    /\ subject.value.Filter.MaxHotels = 1
    /\ subject.value.Filter.MaxRooms = 51
    /\ subject.value.Hotels.HotelCodesLen = 2001
    /\ IsValidationError(verdict)
    /\ verdict.FieldName = "MaxRooms"

\* C13: a Filter is rejected iff MaxHotels > 2000, or MaxRooms is outside
\* 1..50, or MinCategory or MaxCategory is outside 1..5; a FilterHotel is
\* rejected iff it lists more than 2000 hotel codes; every other value is
\* accepted.
C13_RangeRules ==
    /\ (verdict # NoResult /\ subject.type = "Filter") =>
          (verdict # NoError <=>
              \/ subject.value.MaxHotels > 2000
              \/ subject.value.MaxRooms \notin 1..50
              \/ subject.value.MinCategory \notin 1..5
              \/ subject.value.MaxCategory \notin 1..5)
    /\ (verdict # NoResult /\ subject.type = "FilterHotel") =>
          (verdict # NoError <=> subject.value.HotelCodesLen > 2000)

(***************************************************************************)
(* Scalar codecs (encoding.go, audit.go). A wire token is a sequence of    *)
(* characters. The tokens of the model hold no backslash, single quote or  *)
(* backquote, so strconv.Unquote has nothing to unescape.                  *)
(***************************************************************************)
Quote == "\""

Digits == <<"0","1","2","3","4","5","6","7","8","9">>

IsDigit(c) == \E i \in DOMAIN Digits : Digits[i] = c

DigitValue(c) == (CHOOSE i \in DOMAIN Digits : Digits[i] = c) - 1

AllDigits(s) == \A i \in DOMAIN s : IsDigit(s[i])

\* The number a sequence of digits writes (0 for the empty sequence).
RECURSIVE DigitsValue(_)
DigitsValue(s) ==
    IF s = << >> THEN 0
    ELSE 10 * DigitsValue(SubSeq(s, 1, Len(s) - 1)) + DigitValue(s[Len(s)])

\* The decimal digits of a natural number, no leading zero.
RECURSIVE FormatUint(_)
FormatUint(n) ==
    IF n < 10 THEN <<Digits[n + 1]>>
    ELSE FormatUint(n \div 10) \o <<Digits[(n % 10) + 1]>>

\* strconv.Itoa
Itoa(n) == IF n < 0 THEN <<"-">> \o FormatUint(-n) ELSE FormatUint(n)

\* strconv.ParseInt(s, 10, 64) and strconv.Atoi: an optional sign and at
\* least one digit.
ParseInt(s) ==
    LET signed == s # << >> /\ s[1] \in {"+", "-"}
        digits == IF signed THEN SubSeq(s, 2, Len(s)) ELSE s
    IN IF digits = << >> \/ ~AllDigits(digits)
       THEN [ok |-> FALSE, n |-> 0]
       ELSE [ok |-> TRUE,
             n |-> IF signed /\ s[1] = "-"
                   THEN -DigitsValue(digits) ELSE DigitsValue(digits)]

RECURSIVE Pow10(_)
Pow10(n) == IF n = 0 THEN 1 ELSE 10 * Pow10(n - 1)

\* big.Int.Quo: division truncated toward zero.
Quo(a, b) == IF a >= 0 THEN a \div b ELSE -((-a) \div b)

\* Positions of the characters of s that are in the set cs.
IndexesOf(s, cs) == { i \in DOMAIN s : s[i] \in cs }

Min(S) == CHOOSE x \in S : \A y \in S : x <= y

\* A panic of the Go runtime.
Panic(text) == [id |-> "panic", text |-> text]

IndexOutOfRange == Panic("index out of range")

SliceBoundsOutOfRange == Panic("slice bounds out of range")

IsPanic(e) == e.id = "panic"

\* strconv.Unquote on a token without escapes: the text between a pair of
\* double quotes that holds no further double quote.
Unquote(s) ==
    IF /\ Len(s) >= 2
       /\ s[1] = Quote /\ s[Len(s)] = Quote
       /\ \A i \in 2..(Len(s) - 1) : s[i] # Quote
    THEN [ok |-> TRUE, str |-> SubSeq(s, 2, Len(s) - 1)]
    ELSE [ok |-> FALSE, str |-> << >>]

\* func trimUnescapeQuotes(data []byte) string. str[0] on an empty string and
\* str[1:len(str)-1] on a one-character string panic.
trimUnescapeQuotes(d) ==
    LET str == IF Unquote(d).ok THEN Unquote(d).str ELSE d
    IN IF str = << >>
       THEN [panic |-> TRUE, err |-> IndexOutOfRange, str |-> << >>]
       ELSE IF str[1] = Quote
       THEN IF Len(str) = 1
            THEN [panic |-> TRUE, err |-> SliceBoundsOutOfRange, str |-> << >>]
            ELSE [panic |-> FALSE, err |-> NoError,
                  str |-> SubSeq(str, 2, Len(str) - 1)]
       ELSE [panic |-> FALSE, err |-> NoError, str |-> str]

(***************************************************************************)
(* Amount: a decimal.Decimal, the number value * 10^exp.                   *)
(***************************************************************************)
Decimal(value, exp) == [value |-> value, exp |-> exp]

\* decimal.NewFromString: an optional exponent after e or E, at most one
\* decimal point, and what is left parsed as a signed integer.
NewFromString(s) ==
    LET es == IndexesOf(s, {"e", "E"})
        eIndex == IF es = {} THEN 0 ELSE Min(es)
        expInt == IF eIndex = 0 THEN [ok |-> TRUE, n |-> 0]
                  ELSE ParseInt(SubSeq(s, eIndex + 1, Len(s)))
        value == IF eIndex = 0 THEN s ELSE SubSeq(s, 1, eIndex - 1)
        ps == IndexesOf(value, {"."})
        pIndex == IF ps = {} THEN 0 ELSE Min(ps)
        intString == IF pIndex = 0 THEN value
                     ELSE SubSeq(value, 1, pIndex - 1)
                            \o SubSeq(value, pIndex + 1, Len(value))
        exp == IF pIndex = 0 THEN expInt.n
               ELSE expInt.n - (Len(value) - pIndex)
    IN IF ~expInt.ok \/ Cardinality(ps) > 1 \/ ~ParseInt(intString).ok
       THEN [ok |-> FALSE, dec |-> Decimal(0, 0)]
       ELSE [ok |-> TRUE, dec |-> Decimal(ParseInt(intString).n, exp)]

\* Decimal.rescale: the same number at another exponent, digits below the
\* new exponent cut off.
rescale(d, exp) ==
    IF d.exp = exp THEN d
    ELSE IF exp > d.exp THEN Decimal(Quo(d.value, Pow10(exp - d.exp)), exp)
    ELSE Decimal(d.value * Pow10(d.exp - exp), exp)

\* Decimal.Round with the half step left out: digits past the requested
\* places are cut off.
RoundDown(d, places) ==
    IF d.exp = -places THEN d ELSE rescale(d, -places)

\* Decimal.Round: to places decimal places, a half rounded away from zero.
Round(d, places) ==
    IF d.exp = -places THEN d
    ELSE LET ret == rescale(d, -places - 1)
             stepped == IF ret.value < 0 THEN ret.value - 5 ELSE ret.value + 5
             q == stepped \div 10
             m == stepped % 10
         IN Decimal(IF q < 0 /\ m # 0 THEN q + 1 ELSE q, ret.exp + 1)

\* Decimal.string(false)
decimalString(d) ==
    IF d.exp >= 0 THEN Itoa(rescale(d, 0).value)
    ELSE LET str == FormatUint(IF d.value < 0 THEN -d.value ELSE d.value)
             intPart == IF Len(str) > -d.exp
                        THEN SubSeq(str, 1, Len(str) + d.exp)
                        ELSE <<"0">>
             fractionalPart ==
                 IF Len(str) > -d.exp
                 THEN SubSeq(str, Len(str) + d.exp + 1, Len(str))
                 ELSE [i \in 1..(-d.exp - Len(str)) |-> "0"] \o str
             number == intPart \o <<".">> \o fractionalPart
         IN IF d.value < 0 THEN <<"-">> \o number ELSE number

\* Decimal.StringFixed
StringFixed(d, places) == decimalString(Round(d, places))

\* Places Amount.MarshalJSON formats to.
AmountPlaces == 2

\* Amount.MarshalJSON formatting to one place.
AmountMarshalJSONOnePlace(a) == StringFixed(a, 1)

\* func (a Amount) MarshalJSON() ([]byte, error)
AmountMarshalJSON(a) == StringFixed(a, AmountPlaces)

\* fmt.Errorf("failed to parse Amount: %w", err)
AmountParseError == [id |-> "fmt.Errorf", text |-> "failed to parse Amount"]

\* func (a *Amount) UnmarshalJSON(data []byte) error: the target after the
\* call and what the call ended with.
AmountUnmarshalJSON(a, d) ==
    LET t == trimUnescapeQuotes(d)
        parsed == NewFromString(t.str)
    IN IF t.panic THEN [target |-> a, err |-> t.err]
       ELSE IF ~parsed.ok THEN [target |-> a, err |-> AmountParseError]
       ELSE [target |-> parsed.dec, err |-> NoError]

(***************************************************************************)
(* Amount tokens: an optional sign, integer digits, an optional point with *)
(* up to MaxFractionDigits fraction digits, an optional exponent, bare or  *)
(* inside double quotes. Each token is kept with the parts it was built    *)
(* from.                                                                   *)
(***************************************************************************)
MaxFractionDigits == 3

Signs == {<< >>, <<"-">>, <<"+">>}

IntegerParts == {<< >>, <<"0">>, <<"7">>, <<"1","2">>, <<"0","7">>}

FractionDigits == {"0", "4", "5", "9"}

\* No point at all, or a point followed by 0..MaxFractionDigits digits.
FractionParts ==
    {[point |-> FALSE, digits |-> << >>]} \cup
    { [point |-> TRUE, digits |-> ds] :
        ds \in UNION { [1..n -> FractionDigits] : n \in 0..MaxFractionDigits } }

Exponents ==
    { [text |-> << >>, n |-> 0], [text |-> <<"e","2">>, n |-> 2],
      [text |-> <<"E","-","1">>, n |-> -1] }

AmountParts ==
    [quoted : BOOLEAN, sign : Signs, int : IntegerParts,
     frac : FractionParts, exp : Exponents]

AmountText(p) ==
    LET bare == p.sign \o p.int
                  \o (IF p.frac.point THEN <<".">> ELSE << >>)
                  \o p.frac.digits \o p.exp.text
    IN IF p.quoted THEN <<Quote>> \o bare \o <<Quote>> ELSE bare

AmountSources == { [token |-> AmountText(p), parts |-> p] : p \in AmountParts }

\* The zero value of Amount.
ZeroAmount == Decimal(0, 0)

InitAmount ==
    /\ codec = "Amount"
    /\ source \in AmountSources
    /\ target = ZeroAmount
    /\ cerr = NoResult
    /\ data = << >>
    /\ ApiIdle /\ ValidationIdle
    /\ ConcurrencyIdle

\* json.Unmarshal of the token into an Amount: a.UnmarshalJSON(token).
AmountDecode ==
    /\ codec = "Amount" /\ cerr = NoResult
    /\ target' = AmountUnmarshalJSON(target, source.token).target
    /\ cerr' = AmountUnmarshalJSON(target, source.token).err
    /\ UNCHANGED <<codec, source, data, apiVars, validationVars>>
    /\ UNCHANGED concurrencyVars

\* json.Marshal of the decoded Amount: a.MarshalJSON().
AmountEncode ==
    /\ codec = "Amount" /\ cerr = NoError /\ data = << >>
    /\ data' = AmountMarshalJSON(target)
    /\ UNCHANGED <<codec, source, target, cerr, apiVars, validationVars>>
    /\ UNCHANGED concurrencyVars

NextAmount == AmountDecode \/ AmountEncode

SpecAmount == InitAmount /\ [][NextAmount]_vars

\* The token writes a decimal number: it has at least one digit before the
\* exponent.
IsDecimal(p) == p.int # << >> \/ p.frac.digits # << >>

\* A plain decimal string: bare, digits before the point, no exponent.
IsPlainDecimal(p) == ~p.quoted /\ p.int # << >> /\ p.exp.text = << >>

\* A plain decimal string in the form the encoder writes: no plus sign, no
\* leading zero in front of another integer digit, no minus sign on zero.
IsCanonical(p) ==
    /\ IsPlainDecimal(p)
    /\ p.sign # <<"+">>
    /\ Len(p.int) > 1 => p.int[1] # "0"
    /\ p.sign = <<"-">> => DigitsValue(p.int \o p.frac.digits) # 0

\* Digits of scale the token values are compared at.
Scale == MaxFractionDigits + 1

\* The number the parts write, in units of 10^-Scale.
ScaledValue(p) ==
    (IF p.sign = <<"-">> THEN -1 ELSE 1)
      * DigitsValue(p.int \o p.frac.digits)
      * Pow10(Scale - Len(p.frac.digits) + p.exp.n)

\* The text is an optional minus sign, at least one digit, a point and
\* exactly two digits.
HasTwoFractionDigits(s) ==
    LET body == IF s # << >> /\ s[1] = "-" THEN SubSeq(s, 2, Len(s)) ELSE s
    IN /\ Len(body) >= 4
       /\ body[Len(body) - 2] = "."
       /\ AllDigits(SubSeq(body, 1, Len(body) - 3))
       /\ AllDigits(SubSeq(body, Len(body) - 1, Len(body)))

\* The number such a text writes, in hundredths.
Hundredths(s) ==
    LET neg == s[1] = "-"
        body == IF neg THEN SubSeq(s, 2, Len(s)) ELSE s
        n == DigitsValue(SubSeq(body, 1, Len(body) - 3)
                            \o SubSeq(body, Len(body) - 1, Len(body)))
    IN IF neg THEN -n ELSE n

Abs(n) == IF n < 0 THEN -n ELSE n

\* A decimal token has been decoded and the result encoded.
AmountRoundTripDone == codec = "Amount" /\ data # << >>

\* C14 as stated: for every valid decimal string s with at most 2 fraction
\* digits, any sign, Amount encode(decode(s)) returns exactly s.
C14_AsStated ==
    (AmountRoundTripDone /\ IsPlainDecimal(source.parts)
        /\ Len(source.parts.frac.digits) <= 2) =>
        data = source.token

\* The text of a plain decimal string filled up with zeros to two fraction
\* digits.
PaddedToTwo(p) ==
    p.sign \o p.int \o <<".">> \o p.frac.digits
      \o [i \in 1..(2 - Len(p.frac.digits)) |-> "0"]

\* C14 amended: for every decimal string s in the form the encoder writes
\* (bare, no plus sign, no redundant leading zero, no negative zero) with
\* exactly 2 fraction digits, Amount encode(decode(s)) returns exactly s;
\* with 0 or 1 fraction digits it returns s filled up with zeros to 2
\* fraction digits.
C14_RoundTrip ==
    (AmountRoundTripDone /\ IsCanonical(source.parts)
        /\ Len(source.parts.frac.digits) <= 2) =>
        /\ data = PaddedToTwo(source.parts)
        /\ Len(source.parts.frac.digits) = 2 => data = source.token
        /\ Len(source.parts.frac.digits) < 2 => data # source.token

\* C14 witness: "-12.45" has been decoded and encoded back to "-12.45".
C14_Witness ==
    /\ AmountRoundTripDone
    /\ source.token = <<"-","1","2",".","4","5">>
    /\ data = source.token

\* C15: for every decimal input, Amount encode(decode(s)) is an unquoted
\* token with exactly two fraction digits whose value is the input rounded
\* to 2 decimal places (no further from it than half a hundredth), zero
\* written "0.00" and negative values "-X.XX"; encode(decode(.)) of that
\* output returns it unchanged. Every decimal input decodes without error.
C15_TwoPlaces ==
    /\ (codec = "Amount" /\ cerr # NoResult /\ IsDecimal(source.parts)) =>
          cerr = NoError
    /\ (AmountRoundTripDone /\ IsDecimal(source.parts)) =>
          /\ HasTwoFractionDigits(data)
          /\ 2 * Abs(Hundredths(data) * Pow10(Scale - 2)
                       - ScaledValue(source.parts)) <= Pow10(Scale - 2)
          /\ Hundredths(data) = 0 => data = <<"0",".","0","0">>
          /\ Hundredths(data) < 0 <=> data[1] = "-"
          /\ AmountUnmarshalJSON(ZeroAmount, data).err = NoError
          /\ AmountMarshalJSON(AmountUnmarshalJSON(ZeroAmount, data).target)
                = data

\* C15 witness: "-0.045" has been decoded and encoded as "-0.05".
C15_Witness ==
    /\ AmountRoundTripDone
    /\ source.token = <<"-","0",".","0","4","5">>
    /\ data = <<"-","0",".","0","5">>

(***************************************************************************)
(* Datetime, Timestamp, TimestampTZ: a time.Time, here the wall clock      *)
(* reading in a zone Offset minutes east of UTC. A layout is the sequence  *)
(* of its elements as time.Format and time.Parse cut it up: the standard   *)
(* chunks "2006", "01", "02", "15", "04", "05", ".000", "Z07:00", and      *)
(* literal characters.                                                     *)
(***************************************************************************)
Time(year, month, day, hour, minute, second, nsec, offset) ==
    [Year |-> year, Month |-> month, Day |-> day, Hour |-> hour,
     Minute |-> minute, Second |-> second, Nsec |-> nsec, Offset |-> offset]

\* time.Time{}
ZeroTime == Time(1, 1, 1, 0, 0, 0, 0, 0)

\* "2006-01-02"
DatetimeLayout == <<"2006", "-", "01", "-", "02">>

\* "2006-01-02 15:04:05.000"
TimestampLayout ==
    <<"2006", "-", "01", "-", "02", " ", "15", ":", "04", ":", "05", ".000">>

\* time.RFC3339 = "2006-01-02T15:04:05Z07:00"
RFC3339 ==
    <<"2006", "-", "01", "-", "02", "T", "15", ":", "04", ":", "05", "Z07:00">>

\* n in decimal, filled up with zeros to the width w.
Pad(n, w) ==
    LET ds == FormatUint(n)
    IN [i \in 1..(w - Len(ds)) |-> "0"] \o ds

\* What time.Format writes for one layout element.
FormatElement(t, e) ==
    CASE e = "2006" -> Pad(t.Year, 4)
      [] e = "01" -> Pad(t.Month, 2)
      [] e = "02" -> Pad(t.Day, 2)
      [] e = "15" -> Pad(t.Hour, 2)
      [] e = "04" -> Pad(t.Minute, 2)
      [] e = "05" -> Pad(t.Second, 2)
      [] e = ".000" -> <<".">> \o Pad(t.Nsec \div 1000000, 3)
      [] e = "Z07:00" ->
            IF t.Offset = 0 THEN <<"Z">>
            ELSE (IF t.Offset < 0 THEN <<"-">> ELSE <<"+">>)
                   \o Pad(Abs(t.Offset) \div 60, 2) \o <<":">>
                   \o Pad(Abs(t.Offset) % 60, 2)
      [] OTHER -> <<e>>

RECURSIVE FormatFrom(_, _, _)
FormatFrom(t, layout, i) ==
    IF i > Len(layout) THEN << >>
    ELSE FormatElement(t, layout[i]) \o FormatFrom(t, layout, i + 1)

\* time.Time.Format
Format(t, layout) == FormatFrom(t, layout, 1)

IsLeap(year) == year % 4 = 0 /\ (year % 100 # 0 \/ year % 400 = 0)

\* time.daysIn
DaysIn(month, year) ==
    IF month = 2 THEN (IF IsLeap(year) THEN 29 ELSE 28)
    ELSE IF month \in {4, 6, 9, 11} THEN 30 ELSE 31

ParseFailed == [ok |-> FALSE, t |-> ZeroTime]

BadNumber == [ok |-> FALSE, n |-> 0, rest |-> << >>]

\* time.getnum: one or two leading digits, two when fixed.
getnum(s, fixed) ==
    IF s = << >> \/ ~IsDigit(s[1]) THEN BadNumber
    ELSE IF Len(s) < 2 \/ ~IsDigit(s[2])
    THEN IF fixed THEN BadNumber
         ELSE [ok |-> TRUE, n |-> DigitValue(s[1]), rest |-> Tail(s)]
    ELSE [ok |-> TRUE, n |-> DigitsValue(SubSeq(s, 1, 2)),
          rest |-> SubSeq(s, 3, Len(s))]

\* The value with its leading spaces cut off.
RECURSIVE cutspace(_)
cutspace(s) == IF s # << >> /\ s[1] = " " THEN cutspace(Tail(s)) ELSE s

\* Number of digits at the front of s.
RECURSIVE LeadingDigits(_)
LeadingDigits(s) ==
    IF s # << >> /\ IsDigit(s[1]) THEN 1 + LeadingDigits(Tail(s)) ELSE 0

\* time.Parse from the i-th layout element on, value being the text not yet
\* consumed and t the fields parsed so far.
RECURSIVE ParseFrom(_, _, _, _)
ParseFrom(layout, i, value, t) ==
    IF i > Len(layout)
    THEN IF value # << >> THEN ParseFailed
         ELSE IF t.Day < 1 \/ t.Day > DaysIn(t.Month, t.Year) THEN ParseFailed
         ELSE [ok |-> TRUE, t |-> t]
    ELSE
    LET e == layout[i]
        fixed == getnum(value, TRUE)
        free == getnum(value, FALSE)
    IN
    CASE e = "2006" ->
            IF Len(value) < 4 \/ ~AllDigits(SubSeq(value, 1, 4)) THEN ParseFailed
            ELSE ParseFrom(layout, i + 1, SubSeq(value, 5, Len(value)),
                           [t EXCEPT !.Year = DigitsValue(SubSeq(value, 1, 4))])
      [] e = "01" ->
            IF ~fixed.ok \/ fixed.n < 1 \/ fixed.n > 12 THEN ParseFailed
            ELSE ParseFrom(layout, i + 1, fixed.rest, [t EXCEPT !.Month = fixed.n])
      [] e = "02" ->
            IF ~fixed.ok THEN ParseFailed
            ELSE ParseFrom(layout, i + 1, fixed.rest, [t EXCEPT !.Day = fixed.n])
      [] e = "15" ->
            IF ~free.ok \/ free.n >= 24 THEN ParseFailed
            ELSE ParseFrom(layout, i + 1, free.rest, [t EXCEPT !.Hour = free.n])
      [] e = "04" ->
            IF ~fixed.ok \/ fixed.n >= 60 THEN ParseFailed
            ELSE ParseFrom(layout, i + 1, fixed.rest, [t EXCEPT !.Minute = fixed.n])
      [] e = "05" ->
            IF ~fixed.ok \/ fixed.n >= 60 THEN ParseFailed
            ELSE LET rest == fixed.rest
                     \* A fraction of a second the layout does not ask for is
                     \* read when the text has one.
                     extra == /\ Len(rest) >= 2 /\ rest[1] \in {".", ","}
                              /\ IsDigit(rest[2])
                              /\ ~(i < Len(layout) /\ layout[i + 1] = ".000")
                     n == IF extra THEN LeadingDigits(Tail(rest)) ELSE 0
                 IN IF extra /\ n > 9 THEN ParseFailed
                    ELSE IF extra
                    THEN ParseFrom(layout, i + 1, SubSeq(rest, n + 2, Len(rest)),
                                   [t EXCEPT !.Second = fixed.n,
                                             !.Nsec = DigitsValue(SubSeq(rest, 2, n + 1))
                                                        * Pow10(9 - n)])
                    ELSE ParseFrom(layout, i + 1, rest, [t EXCEPT !.Second = fixed.n])
      [] e = ".000" ->
            IF Len(value) < 4 \/ value[1] \notin {".", ","} THEN ParseFailed
            ELSE LET ns == ParseInt(SubSeq(value, 2, 4))
                 IN IF ~ns.ok \/ ns.n < 0 THEN ParseFailed
                    ELSE ParseFrom(layout, i + 1, SubSeq(value, 5, Len(value)),
                                   [t EXCEPT !.Nsec = ns.n * 1000000])
      [] e = "Z07:00" ->
            IF value # << >> /\ value[1] = "Z"
            THEN ParseFrom(layout, i + 1, Tail(value), [t EXCEPT !.Offset = 0])
            ELSE IF Len(value) < 6 \/ value[4] # ":" \/ value[1] \notin {"+", "-"}
            THEN ParseFailed
            ELSE LET hr == getnum(SubSeq(value, 2, 3), TRUE)
                     mm == getnum(SubSeq(value, 5, 6), TRUE)
                 IN IF ~hr.ok \/ ~mm.ok \/ hr.n > 24 \/ mm.n > 60 THEN ParseFailed
                    ELSE ParseFrom(layout, i + 1, SubSeq(value, 7, Len(value)),
                                   [t EXCEPT !.Offset =
                                       (IF value[1] = "-" THEN -1 ELSE 1)
                                         * (hr.n * 60 + mm.n)])
      [] e = " " ->
            IF value # << >> /\ value[1] # " " THEN ParseFailed
            ELSE ParseFrom(layout, i + 1, cutspace(value), t)
      [] OTHER ->
            IF value = << >> \/ value[1] # e THEN ParseFailed
            ELSE ParseFrom(layout, i + 1, Tail(value), t)

\* time.Parse: fields the layout does not name keep their zero value, the
\* zone is UTC unless the text names another.
Parse(layout, value) == ParseFrom(layout, 1, value, ZeroTime)

\* Timestamp.MarshalJSON writing the seconds without the milliseconds.
TimestampMarshalJSONSeconds(t) ==
    <<Quote>> \o Format(t, SubSeq(TimestampLayout, 1, 11)) \o <<Quote>>

\* func (t Timestamp) MarshalJSON() ([]byte, error)
TimestampMarshalJSON(t) == <<Quote>> \o Format(t, TimestampLayout) \o <<Quote>>

\* func (t TimestampTZ) MarshalJSON() ([]byte, error)
TimestampTZMarshalJSON(t) == <<Quote>> \o Format(t, RFC3339) \o <<Quote>>

\* Mutant of Datetime.String: the day written first ("02-01-2006").
DatetimeStringDayFirst(d) == Format(d, <<"02", "-", "01", "-", "2006">>)

\* func (d Datetime) String() string
DatetimeString(d) == Format(d, DatetimeLayout)

\* func (t Datetime) MarshalJSON() ([]byte, error)
DatetimeMarshalJSON(t) == <<Quote>> \o DatetimeString(t) \o <<Quote>>

\* fmt.Errorf("failed to parse Timestamp: %w", err), the text of both
\* Timestamp.UnmarshalJSON and TimestampTZ.UnmarshalJSON.
TimestampParseError == [id |-> "fmt.Errorf", text |-> "failed to parse Timestamp"]

\* fmt.Errorf("failed to parse DateTime: %w", err)
DatetimeParseError == [id |-> "fmt.Errorf", text |-> "failed to parse DateTime"]

\* The body the three time decoders share: trim the quotes, parse against
\* the layout, store on success.
TimeUnmarshalJSON(layout, parseError, t, d) ==
    LET s == trimUnescapeQuotes(d)
        v == Parse(layout, s.str)
    IN IF s.panic THEN [target |-> t, err |-> s.err]
       ELSE IF ~v.ok THEN [target |-> t, err |-> parseError]
       ELSE [target |-> v.t, err |-> NoError]

\* Datetime.UnmarshalJSON that lets text after the date pass.
DatetimeUnmarshalJSONPrefix(t, d) ==
    TimeUnmarshalJSON(DatetimeLayout, DatetimeParseError, t,
                      SubSeq(d, 1, 11) \o <<Quote>>)

\* func (t *Datetime) UnmarshalJSON(data []byte) error
DatetimeUnmarshalJSON(t, d) ==
    TimeUnmarshalJSON(DatetimeLayout, DatetimeParseError, t, d)

\* func (t *Timestamp) UnmarshalJSON(data []byte) error
TimestampUnmarshalJSON(t, d) ==
    TimeUnmarshalJSON(TimestampLayout, TimestampParseError, t, d)

\* func (t *TimestampTZ) UnmarshalJSON(data []byte) error
TimestampTZUnmarshalJSON(t, d) ==
    TimeUnmarshalJSON(RFC3339, TimestampParseError, t, d)

(***************************************************************************)
(* Time values of the model: dates at the ends of the year range and on a  *)
(* leap day, clock readings at both ends of the day, with and without a    *)
(* fraction of a second below and above the millisecond, in UTC and in     *)
(* zones east and west of it.                                              *)
(***************************************************************************)
Years == {1, 2024, 9999}

Months == {1, 2, 12}

Days == {1, 29, 31}

Nanoseconds == {0, 5000000, 123456789}

Offsets == {-330, 0, 60}

Times ==
    { t \in [Year : Years, Month : Months, Day : Days, Hour : {0, 23},
             Minute : {0, 59}, Second : {0, 59}, Nsec : Nanoseconds,
             Offset : Offsets] : t.Day <= DaysIn(t.Month, t.Year) }

TimeCodecs == {"Datetime", "Timestamp", "TimestampTZ"}

\* A value a decoder's target holds before the call.
PriorTimes == {ZeroTime, Time(2000, 6, 15, 12, 30, 45, 0, 0)}

\* MarshalJSON of the codec type c.
TimeMarshalJSON(c, t) ==
    CASE c = "Datetime" -> DatetimeMarshalJSON(t)
      [] c = "Timestamp" -> TimestampMarshalJSON(t)
      [] c = "TimestampTZ" -> TimestampTZMarshalJSON(t)

\* UnmarshalJSON of the codec type c.
TimeUnmarshal(c, t, d) ==
    CASE c = "Datetime" -> DatetimeUnmarshalJSON(t, d)
      [] c = "Timestamp" -> TimestampUnmarshalJSON(t, d)
      [] c = "TimestampTZ" -> TimestampTZUnmarshalJSON(t, d)

InitTime ==
    /\ codec \in TimeCodecs
    /\ source \in [time : Times]
    /\ data = << >>
    /\ target = NoResult
    /\ cerr = NoResult
    /\ ApiIdle /\ ValidationIdle
    /\ ConcurrencyIdle

\* The value is encoded as the codec type it has.
TimeEncode ==
    /\ codec \in TimeCodecs /\ data = << >>
    /\ data' = TimeMarshalJSON(codec, source.time)
    /\ UNCHANGED <<codec, source, target, cerr, apiVars, validationVars>>
    /\ UNCHANGED concurrencyVars

\* The encoded text is decoded into a target of any of the three types.
TimeDecode ==
    /\ codec \in TimeCodecs /\ data # << >> /\ cerr = NoResult
    /\ \E c \in TimeCodecs, before \in PriorTimes :
          /\ target' = [type |-> c, before |-> before,
                        value |-> TimeUnmarshal(c, before, data).target]
          /\ cerr' = TimeUnmarshal(c, before, data).err
    /\ UNCHANGED <<codec, source, data, apiVars, validationVars>>
    /\ UNCHANGED concurrencyVars

NextTime == TimeEncode \/ TimeDecode

SpecTime == InitTime /\ [][NextTime]_vars

\* The text has been decoded by the decoder of the type that encoded it.
SameLayoutDecoded ==
    codec \in TimeCodecs /\ cerr # NoResult /\ target.type = codec

\* The text has been decoded by the decoder of another type.
CrossLayoutDecoded ==
    codec \in TimeCodecs /\ cerr # NoResult /\ target.type # codec

Kept(c, t) ==
    CASE c = "Datetime" ->
            Time(t.Year, t.Month, t.Day, 0, 0, 0, 0, 0)
      [] c = "Timestamp" ->
            Time(t.Year, t.Month, t.Day, t.Hour, t.Minute, t.Second,
                 (t.Nsec \div 1000000) * 1000000, 0)
      [] c = "TimestampTZ" ->
            Time(t.Year, t.Month, t.Day, t.Hour, t.Minute, t.Second, 0,
                 t.Offset)

IsReturnedError(e) == e # NoResult /\ e # NoError /\ ~IsPanic(e)

\* C17: text produced by the encoder of one of the three layouts and fed to
\* the decoder of a different layout always yields an error and leaves the
\* target value unchanged.
C17_CrossLayoutFails ==
    CrossLayoutDecoded =>
        /\ IsReturnedError(cerr)
        /\ target.value = target.before

\* C17 witness: RFC 3339 text has been fed to the date-only decoder, whose
\* target held a value before.
C17_Witness ==
    /\ CrossLayoutDecoded
    /\ codec = "TimestampTZ"
    /\ target.type = "Datetime"
    /\ target.before # ZeroTime
    /\ cerr = DatetimeParseError

(***************************************************************************)
(* CommaSliceInt and CommaSliceString (audit.go). An int list is a         *)
(* sequence of integers, a string list a sequence of character sequences.  *)
(***************************************************************************)
\* strings.Split(s, ","): the text between the commas; one segment more
\* than there are commas, so the empty text gives one empty segment.
RECURSIVE Split(_)
Split(s) ==
    LET cs == IndexesOf(s, {","})
    IN IF cs = {} THEN <<s>>
       ELSE <<SubSeq(s, 1, Min(cs) - 1)>>
              \o Split(SubSeq(s, Min(cs) + 1, Len(s)))

\* strings.Join(elems, ",")
RECURSIVE Join(_)
Join(elems) ==
    IF elems = << >> THEN << >>
    ELSE IF Len(elems) = 1 THEN elems[1]
    ELSE elems[1] \o <<",">> \o Join(Tail(elems))

\* bytes.Count(data, []byte(","))
CountCommas(d) == Cardinality(IndexesOf(d, {","}))

\* The strings.Builder of CommaSliceInt.MarshalJSON after the loop: every
\* element followed by a comma.
RECURSIVE WriteElems(_)
WriteElems(s) ==
    IF s = << >> THEN << >>
    ELSE Itoa(s[1]) \o <<",">> \o WriteElems(Tail(s))

\* func (s CommaSliceInt) MarshalJSON() ([]byte, error). For the empty list
\* sb.String()[:sb.Len()-1] slices to -1 and panics.
CommaSliceIntMarshalJSON(s) ==
    LET sb == WriteElems(s)
    IN IF Len(sb) = 0
       THEN [data |-> << >>, err |-> SliceBoundsOutOfRange]
       ELSE [data |-> <<Quote>> \o SubSeq(sb, 1, Len(sb) - 1) \o <<Quote>>,
             err |-> NoError]

\* The error strconv.Atoi returns.
AtoiError == [id |-> "strconv.NumError", text |-> "strconv.Atoi"]

\* The loop of CommaSliceInt.UnmarshalJSON from segment i on: slice is the
\* slice made so far, of the length fixed before the loop.
RECURSIVE DecodeSegments(_, _, _)
DecodeSegments(segments, i, slice) ==
    IF i > Len(segments) THEN [slice |-> slice, err |-> NoError]
    ELSE IF ~ParseInt(segments[i]).ok THEN [slice |-> slice, err |-> AtoiError]
    ELSE IF i > Len(slice) THEN [slice |-> slice, err |-> IndexOutOfRange]
    ELSE DecodeSegments(segments, i + 1,
                        [slice EXCEPT ![i] = ParseInt(segments[i]).n])

\* func (s *CommaSliceInt) UnmarshalJSON(data []byte) error. The slice is
\* made with one element per comma of data, one fewer than Split returns
\* segments.
CommaSliceIntUnmarshalJSON(s, d) ==
    IF Len(d) = 0 THEN [target |-> s, err |-> NoError]
    ELSE LET slice == [i \in 1..CountCommas(d) |-> 0]
             str == trimUnescapeQuotes(d)
             done == DecodeSegments(Split(str.str), 1, slice)
         IN IF str.panic THEN [target |-> s, err |-> str.err]
            ELSE IF done.err # NoError THEN [target |-> s, err |-> done.err]
            ELSE [target |-> done.slice, err |-> NoError]

\* func (s CommaSliceString) MarshalJSON() ([]byte, error)
CommaSliceStringMarshalJSON(s) ==
    [data |-> <<Quote>> \o Join(s) \o <<Quote>>, err |-> NoError]

\* func (s *CommaSliceString) UnmarshalJSON(data []byte) error. data is split
\* as it comes, its quotes included.
CommaSliceStringUnmarshalJSON(s, d) ==
    IF Len(d) = 0 THEN [target |-> s, err |-> NoError]
    ELSE [target |-> Split(d), err |-> NoError]

\* Lists of up to MaxListLen elements; wire tokens of up to MaxTokenLen
\* characters: a digit, a sign, a letter, the comma and the quote.
MaxListLen == 2

MaxTokenLen == 4

IntElems == {-3, 0, 12}

IntLists == UNION { [1..n -> IntElems] : n \in 0..MaxListLen }

StringElems == {<<"a">>, <<"E","S">>}

StringLists == UNION { [1..n -> StringElems] : n \in 0..MaxListLen }

TokenChars == {Quote, ",", "1", "-", "x"}

RawTokens == UNION { [1..n -> TokenChars] : n \in 0..MaxTokenLen }

CommaCodecs == {"CommaSliceInt", "CommaSliceString"}

InitComma ==
    /\ \/ /\ codec = "CommaSliceInt"
          /\ source \in [list : IntLists] \cup [token : RawTokens]
          /\ target \in { [before |-> b, value |-> b] : b \in {<< >>, <<7>>} }
       \/ /\ codec = "CommaSliceString"
          /\ source \in [list : StringLists]
          /\ target \in { [before |-> b, value |-> b] :
                            b \in {<< >>, <<<<"z">>>>} }
       \/ /\ codec = "joinInts"
          /\ source \in [list : IntLists]
          /\ target = [before |-> << >>, value |-> << >>]
    /\ data = << >>
    /\ cerr = NoResult
    /\ ApiIdle /\ ValidationIdle
    /\ ConcurrencyIdle

\* The run starts from a list to encode (not from a token received).
FromList == "list" \in DOMAIN source

\* The bytes the decoder is given: the token received, or what the encoder
\* returned.
Wire == IF FromList THEN data ELSE source.token

\* s.MarshalJSON() on the CommaSliceInt; a panic ends the run.
CommaSliceIntEncode ==
    /\ codec = "CommaSliceInt" /\ FromList /\ data = << >> /\ cerr = NoResult
    /\ data' = CommaSliceIntMarshalJSON(source.list).data
    /\ cerr' = IF CommaSliceIntMarshalJSON(source.list).err = NoError
               THEN NoResult
               ELSE CommaSliceIntMarshalJSON(source.list).err
    /\ UNCHANGED <<codec, source, target, apiVars, validationVars>>
    /\ UNCHANGED concurrencyVars

\* s.UnmarshalJSON(wire) on a CommaSliceInt holding target.before.
CommaSliceIntDecode ==
    /\ codec = "CommaSliceInt" /\ cerr = NoResult
    /\ FromList => data # << >>
    /\ target' = [target EXCEPT
                    !.value = CommaSliceIntUnmarshalJSON(target.before, Wire).target]
    /\ cerr' = CommaSliceIntUnmarshalJSON(target.before, Wire).err
    /\ UNCHANGED <<codec, source, data, apiVars, validationVars>>
    /\ UNCHANGED concurrencyVars

\* s.MarshalJSON() on the CommaSliceString.
CommaSliceStringEncode ==
    /\ codec = "CommaSliceString" /\ data = << >> /\ cerr = NoResult
    /\ data' = CommaSliceStringMarshalJSON(source.list).data
    /\ UNCHANGED <<codec, source, target, cerr, apiVars, validationVars>>
    /\ UNCHANGED concurrencyVars

\* s.UnmarshalJSON(data) on a CommaSliceString holding target.before.
CommaSliceStringDecode ==
    /\ codec = "CommaSliceString" /\ data # << >> /\ cerr = NoResult
    /\ target' = [target EXCEPT
                    !.value = CommaSliceStringUnmarshalJSON(target.before, data).target]
    /\ cerr' = CommaSliceStringUnmarshalJSON(target.before, data).err
    /\ UNCHANGED <<codec, source, data, apiVars, validationVars>>
    /\ UNCHANGED concurrencyVars

\* func joinInts(values []int) string: the values in decimal, each followed
\* by a comma, and the last comma cut off by sb.String()[:sb.Len()-1].
joinInts(values) ==
    LET sb == WriteElems(values)
    IN IF Len(sb) = 0
       THEN [str |-> << >>, err |-> SliceBoundsOutOfRange]
       ELSE [str |-> SubSeq(sb, 1, Len(sb) - 1), err |-> NoError]

\* "/hotel-content-api/1.0/hotels/"
HotelsPathPrefix == 
    <<"/", "h", "o", "t", "e", "l", "-", "c", "o", "n", "t", "e", "n", "t",
      "-", "a", "p", "i", "/", "1", ".", "0", "/", "h", "o", "t", "e", "l",
      "s", "/">>

\* "/details"
DetailsPathSuffix == 
    <<"/", "d", "e", "t", "a", "i", "l", "s">>

\* GetHotelDetails(ctx, codes, inp) up to the request path:
\*   fmt.Sprintf("/hotel-content-api/1.0/hotels/%s/details", joinInts(codes))
GetHotelDetailsPath ==
    /\ codec = "joinInts" /\ data = << >> /\ cerr = NoResult
    /\ data' = IF joinInts(source.list).err = NoError
               THEN HotelsPathPrefix \o joinInts(source.list).str
                      \o DetailsPathSuffix
               ELSE << >>
    /\ cerr' = joinInts(source.list).err
    /\ UNCHANGED <<codec, source, target, apiVars, validationVars>>
    /\ UNCHANGED concurrencyVars

NextComma ==
    \/ GetHotelDetailsPath
    \/ CommaSliceIntEncode
    \/ CommaSliceIntDecode
    \/ CommaSliceStringEncode
    \/ CommaSliceStringDecode

SpecComma == InitComma /\ [][NextComma]_vars

\* The list of the given codec has been encoded and the bytes decoded.
ListRoundTripDone(c) ==
    codec = c /\ FromList /\ data # << >> /\ cerr # NoResult

\* C18: for every integer list L of length >= 1, CommaSliceInt
\* decode(encode(L)) completes and returns exactly L.
C18_IntListRoundTrip ==
    (ListRoundTripDone("CommaSliceInt") /\ Len(source.list) >= 1) =>
        /\ cerr = NoError
        /\ target.value = source.list

\* The token is a JSON string: text without quotes between two quotes.
IsQuotedString(d) == Unquote(d).ok

\* At least one of the comma-separated segments of the text is not a valid
\* integer.
HasBadSegment(s) ==
    \E i \in DOMAIN Split(s) : ~ParseInt(Split(s)[i]).ok

\* C19: decoding a CommaSliceInt from a comma-joined string with at least
\* one segment that is not a valid integer, at any position, returns an
\* error and leaves the target list unchanged.
C19_BadSegmentFails ==
    (codec = "CommaSliceInt" /\ ~FromList /\ cerr # NoResult
        /\ IsQuotedString(source.token)
        /\ HasBadSegment(Unquote(source.token).str)) =>
        /\ IsReturnedError(cerr)
        /\ target.value = target.before

\* C20: for every list L of comma-free strings of length >= 1,
\* CommaSliceString decode(encode(L)) equals L.
C20_StringListRoundTrip ==
    (ListRoundTripDone("CommaSliceString") /\ Len(source.list) >= 1) =>
        /\ cerr = NoError
        /\ target.value = source.list

(***************************************************************************)
(* The scalar decoders as a whole (encoding.go, audit.go): Amount,         *)
(* Datetime, Timestamp, TimestampTZ, Coordinate, Order, Distance,          *)
(* FloatRate, ProcessTime. Each trims the quotes of the token and parses   *)
(* what is left. A float64 is kept as the decimal number its text writes.  *)
(***************************************************************************)
\* strconv.ParseFloat(s, 64) on decimal text: an optional sign, digits with
\* at most one point, an optional exponent.
ParseFloat(s) ==
    LET signed == s # << >> /\ s[1] \in {"+", "-"}
        body == IF signed THEN Tail(s) ELSE s
        es == IndexesOf(body, {"e", "E"})
        mantissa == IF es = {} THEN body ELSE SubSeq(body, 1, Min(es) - 1)
        exponent == IF es = {} THEN [ok |-> TRUE, n |-> 0]
                    ELSE ParseInt(SubSeq(body, Min(es) + 1, Len(body)))
        ps == IndexesOf(mantissa, {"."})
        point == IF ps = {} THEN Len(mantissa) + 1 ELSE Min(ps)
        digits == SubSeq(mantissa, 1, point - 1)
                    \o SubSeq(mantissa, point + 1, Len(mantissa))
    IN IF Cardinality(ps) > 1 \/ digits = << >> \/ ~AllDigits(digits)
          \/ ~exponent.ok
       THEN [ok |-> FALSE, f |-> Decimal(0, 0)]
       ELSE [ok |-> TRUE,
             f |-> Decimal((IF signed /\ s[1] = "-" THEN -1 ELSE 1)
                              * DigitsValue(digits),
                           exponent.n - (Len(digits) - (point - 1)))]

\* fmt.Errorf("failed to parse <name>: %w", err)
ParseErrorOf(name) == [id |-> "fmt.Errorf", text |-> "failed to parse " \o name]

\* The body Coordinate, Distance and FloatRate share:
\*   f, err := strconv.ParseFloat(trimUnescapeQuotes(data), 64)
FloatUnmarshalJSON(name, t, d) ==
    LET s == trimUnescapeQuotes(d)
        f == ParseFloat(s.str)
    IN IF s.panic THEN [target |-> t, err |-> s.err]
       ELSE IF ~f.ok THEN [target |-> t, err |-> ParseErrorOf(name)]
       ELSE [target |-> f.f, err |-> NoError]

\* The body Order and ProcessTime share:
\*   n, err := strconv.Atoi(trimUnescapeQuotes(data))
IntUnmarshalJSON(name, t, d) ==
    LET s == trimUnescapeQuotes(d)
        n == ParseInt(s.str)
    IN IF s.panic THEN [target |-> t, err |-> s.err]
       ELSE IF ~n.ok THEN [target |-> t, err |-> ParseErrorOf(name)]
       ELSE [target |-> n.n, err |-> NoError]

\* func (c *Coordinate) UnmarshalJSON(data []byte) error
CoordinateUnmarshalJSON(t, d) == FloatUnmarshalJSON("Coordinate", t, d)

\* func (d *Distance) UnmarshalJSON(data []byte) error
DistanceUnmarshalJSON(t, d) == FloatUnmarshalJSON("Distance", t, d)

\* func (r *FloatRate) UnmarshalJSON(data []byte) error
FloatRateUnmarshalJSON(t, d) == FloatUnmarshalJSON("FloatRate", t, d)

\* func (o *Order) UnmarshalJSON(data []byte) error
OrderUnmarshalJSON(t, d) == IntUnmarshalJSON("Order", t, d)

\* func (t *ProcessTime) UnmarshalJSON(data []byte) error
ProcessTimeUnmarshalJSON(t, d) == IntUnmarshalJSON("ProcessTime", t, d)

ScalarCodecs ==
    {"Amount", "Datetime", "Timestamp", "TimestampTZ", "Coordinate", "Order",
     "Distance", "FloatRate", "ProcessTime"}

\* UnmarshalJSON of the scalar type c.
ScalarUnmarshalJSON(c, t, d) ==
    CASE c = "Amount" -> AmountUnmarshalJSON(t, d)
      [] c = "Datetime" -> DatetimeUnmarshalJSON(t, d)
      [] c = "Timestamp" -> TimestampUnmarshalJSON(t, d)
      [] c = "TimestampTZ" -> TimestampTZUnmarshalJSON(t, d)
      [] c = "Coordinate" -> CoordinateUnmarshalJSON(t, d)
      [] c = "Order" -> OrderUnmarshalJSON(t, d)
      [] c = "Distance" -> DistanceUnmarshalJSON(t, d)
      [] c = "FloatRate" -> FloatRateUnmarshalJSON(t, d)
      [] c = "ProcessTime" -> ProcessTimeUnmarshalJSON(t, d)

\* The zero value of the scalar type c.
ZeroOf(c) ==
    CASE c \in {"Datetime", "Timestamp", "TimestampTZ"} -> ZeroTime
      [] c \in {"Order", "ProcessTime"} -> 0
      [] OTHER -> ZeroAmount

\* Wire tokens of 1..MaxTokenLen characters (the quote, a digit, the point,
\* the sign, a letter), and one well-formed token of each layout.
ScalarChars == {Quote, "1", ".", "-", "x"}

EmptyQuoted == <<Quote, Quote>>

LoneQuote == <<Quote>>

\* "2024-04-02" with its quotes
QuotedDate == <<Quote>> \o <<"2","0","2","4","-","0","4","-","0","2">> \o <<Quote>>

\* "2024-04-02 10:20:30.123" with its quotes
QuotedTimestamp == <<Quote>> \o <<"2","0","2","4","-","0","4","-","0","2"," ","1","0",":","2","0",":","3","0",".","1","2","3">> \o <<Quote>>

\* "2024-04-02T10:20:30+02:00" with its quotes
QuotedRFC3339 == <<Quote>> \o <<"2","0","2","4","-","0","4","-","0","2","T","1","0",":","2","0",":","3","0","+","0","2",":","0","0">> \o <<Quote>>

\* "123.40" with its quotes
QuotedMoney == <<Quote>> \o <<"1","2","3",".","4","0">> \o <<Quote>>

\* The text "YYYY-MM-DD" of a calendar day.
DateText(year, month, day) ==
    Pad(year, 4) \o <<"-">> \o Pad(month, 2) \o <<"-">> \o Pad(day, 2)

\* Date fields as the API writes them: quoted "YYYY-MM-DD" of valid days.
DateTexts ==
    { DateText(y, m, d) : <<y, m, d>> \in
        { ymd \in Years \X Months \X Days : ymd[3] <= DaysIn(ymd[2], ymd[1]) } }

\* Money fields as the API writes them: quoted text with two decimals.
MoneyTexts ==
    { <<"1", "2", "3", ".", "4", "0">>, <<"0", ".", "0", "5">>, <<"-", "1", ".", "5", "0">>, <<"7", ".", "0", "0">>, <<"1", "0", "0", "0", ".", "9", "9">> }

Quoted(text) == <<Quote>> \o text \o <<Quote>>

ScalarTokens ==
    UNION { [1..n -> ScalarChars] : n \in 1..MaxTokenLen }
      \cup {QuotedDate, QuotedTimestamp, QuotedRFC3339, QuotedMoney}
      \cup { Quoted(text) : text \in DateTexts \cup MoneyTexts }

InitScalar ==
    /\ codec \in ScalarCodecs
    /\ source \in [token : ScalarTokens]
    /\ target = [type |-> codec, before |-> ZeroOf(codec), value |-> ZeroOf(codec)]
    /\ data = << >>
    /\ cerr = NoResult
    /\ ApiIdle /\ ValidationIdle
    /\ ConcurrencyIdle

\* json.Unmarshal hands the token to the UnmarshalJSON of the field's type.
ScalarDecode ==
    /\ codec \in ScalarCodecs /\ cerr = NoResult /\ "token" \in DOMAIN source
    /\ target' = [target EXCEPT
                    !.value = ScalarUnmarshalJSON(codec, target.before,
                                                  source.token).target]
    /\ cerr' = ScalarUnmarshalJSON(codec, target.before, source.token).err
    /\ UNCHANGED <<codec, source, data, apiVars, validationVars>>
    /\ UNCHANGED concurrencyVars

\* The caller formats a decoded field: Datetime.String() for a date,
\* Amount.MarshalJSON() for a money value.
ScalarFormat ==
    /\ codec \in {"Datetime", "Amount"} /\ cerr = NoError /\ data = << >>
    /\ data' = IF codec = "Datetime" THEN DatetimeString(target.value)
               ELSE AmountMarshalJSON(target.value)
    /\ UNCHANGED <<codec, source, target, cerr, apiVars, validationVars>>
    /\ UNCHANGED concurrencyVars

NextScalar == ScalarDecode \/ ScalarFormat

SpecScalar == InitScalar /\ [][NextScalar]_vars

\* C21: every scalar decoder returns an error for a malformed token, the
\* empty quoted string and the lone quote included, and never crashes on
\* any input.
C21_NoCrash ==
    (codec \in ScalarCodecs /\ cerr # NoResult) =>
        /\ ~IsPanic(cerr)
        /\ source.token \in {EmptyQuoted, LoneQuote} => IsReturnedError(cerr)

\* C22: a date field received as quoted "YYYY-MM-DD" text decodes without
\* error to a Datetime whose String() is that text, and a money field
\* received as quoted two-decimal text ("123.40") decodes without error to
\* an Amount that formats back to the same text.
C22_FieldsFormatBack ==
    \A text \in DateTexts \cup MoneyTexts :
        ( /\ source.token = Quoted(text)
          /\ codec = (IF text \in DateTexts THEN "Datetime" ELSE "Amount") ) =>
            /\ cerr # NoResult => cerr = NoError
            /\ data # << >> => data = text

\* C22 witness: checkIn "2024-04-02" has been decoded and formatted back.
C22_WitnessDate ==
    /\ codec = "Datetime" /\ source.token = QuotedDate /\ cerr = NoError
    /\ data = <<"2", "0", "2", "4", "-", "0", "4", "-", "0", "2">>

\* The money half of the C22 scenario: "123.40" decoded and formatted back.
C22_WitnessMoney ==
    /\ codec = "Amount" /\ source.token = QuotedMoney /\ cerr = NoError
    /\ data = <<"1", "2", "3", ".", "4", "0">>

(***************************************************************************)
(* Concurrent use of the core. Each goroutine runs one call on an input of *)
(* its own: decodeError on a response, Geolocation.Validate, or            *)
(* Amount.UnmarshalJSON. The only package-level state a call touches is    *)
(* the map isRetryableError, in decodeError's lookup; the steps of the     *)
(* calls interleave in any order.                                          *)
(***************************************************************************)
NumGoroutines == 2

Goroutines == 1..NumGoroutines

\* Mutant of the map read: a lookup that stores the key it was asked for.
MapAfterLookupStoringKey(m, k) == (k :> TRUE) @@ m

\* The map after "isRetryable, _ := isRetryableError[k]": a read leaves it
\* as it is.
MapAfterLookup(m, k) == m

ConcurrentResponses ==
    { [StatusCode |-> 429, Body |-> <<ShortDoc(Str(ErrQuotaExceeded.text))>>],
      [StatusCode |-> 400, Body |-> <<ShortDoc(Str(ErrBookingDoesNotExist.text))>>],
      [StatusCode |-> 400, Body |-> <<ShortDoc(Bad), BookingDoesNotExistDoc>>],
      [StatusCode |-> 500, Body |-> <<NonObject("invalid")>>] }

ConcurrentInputs ==
    [op : {"decodeError"}, arg : ConcurrentResponses]
      \cup [op : {"Validate"}, arg : GeolocationSamples \ {Nil}]
      \cup [op : {"UnmarshalJSON"}, arg : {QuotedMoney, LoneQuote}]

\* What the call returns when no other call runs; k1 and k2 as in
\* decodeError.
Alone(op, arg, k1, k2) ==
    CASE op = "decodeError" -> decodeError(arg, k1, k2).err
      [] op = "Validate" -> GeolocationValidate(arg)
      [] op = "UnmarshalJSON" -> AmountUnmarshalJSON(ZeroAmount, arg)

InitConcurrent ==
    /\ catalog = isRetryableError
    /\ calls \in [Goroutines ->
                    { [op |-> i.op, arg |-> i.arg, pc |-> "start", k1 |-> 0,
                       k2 |-> 0, shortErr |-> EmptyString, overlapped |-> FALSE,
                       result |-> NoResult] : i \in ConcurrentInputs }]
    /\ ApiIdle /\ ValidationIdle /\ CodecIdle

\* The calls of the other goroutines that are between two steps see a step
\* of goroutine g happen.
Overlap(g, own) ==
    [h \in Goroutines |->
        IF h = g THEN own
        ELSE [calls[h] EXCEPT !.overlapped = @ \/ calls[h].pc = "lookup"]]

\* decodeError up to the lookup: the two decoders read the call's own
\* response body into the locals shortErr and longErr.
DecodeBodies(g) ==
    /\ calls[g].op = "decodeError" /\ calls[g].pc = "start"
    /\ \E k1 \in ReadAhead(calls[g].arg.Body) :
       \E k2 \in ReadAhead(Drop(calls[g].arg.Body, k1)) :
          calls' = Overlap(g, [calls[g] EXCEPT
                      !.pc = "lookup", !.k1 = k1, !.k2 = k2,
                      !.shortErr = decodeShort(calls[g].arg.Body).Error])
    /\ UNCHANGED <<catalog, apiVars, validationVars, codecVars>>

\* isRetryable, _ := isRetryableError[decodeErrorMessage(shortErr.Error)]
\* and the return that follows it.
LookupAndReturn(g) ==
    /\ calls[g].op = "decodeError" /\ calls[g].pc = "lookup"
    /\ LET key == decodeErrorMessage(calls[g].shortErr)
           built == decodeError(calls[g].arg, calls[g].k1, calls[g].k2).err
       IN /\ calls' = Overlap(g, [calls[g] EXCEPT
                        !.pc = "done",
                        !.result = IF IsErrorPtr(built)
                                   THEN [built EXCEPT !.IsRetryable =
                                            MapLookup(catalog, key)]
                                   ELSE built])
          /\ catalog' = MapAfterLookup(catalog, key)
    /\ UNCHANGED <<apiVars, validationVars, codecVars>>

\* g.Validate() on the goroutine's own Geolocation.
ValidateOwn(g) ==
    /\ calls[g].op = "Validate" /\ calls[g].pc = "start"
    /\ calls' = Overlap(g, [calls[g] EXCEPT
                   !.pc = "done", !.result = GeolocationValidate(calls[g].arg)])
    /\ UNCHANGED <<catalog, apiVars, validationVars, codecVars>>

\* a.UnmarshalJSON(data) into the goroutine's own Amount.
UnmarshalOwn(g) ==
    /\ calls[g].op = "UnmarshalJSON" /\ calls[g].pc = "start"
    /\ calls' = Overlap(g, [calls[g] EXCEPT
                   !.pc = "done",
                   !.result = AmountUnmarshalJSON(ZeroAmount, calls[g].arg)])
    /\ UNCHANGED <<catalog, apiVars, validationVars, codecVars>>

NextConcurrent ==
    \E g \in Goroutines :
        \/ DecodeBodies(g)
        \/ LookupAndReturn(g)
        \/ ValidateOwn(g)
        \/ UnmarshalOwn(g)

SpecConcurrent == InitConcurrent /\ [][NextConcurrent]_vars

\* C23: no step of a call of the codec, classification or validation layer
\* writes the package-level map, and under every interleaving each call
\* returns what it returns when run alone on the same input.
C23_CallsIsolated ==
    /\ catalog = isRetryableError
    /\ \A g \in DOMAIN calls :
          calls[g].pc = "done" =>
              calls[g].result =
                  Alone(calls[g].op, calls[g].arg, calls[g].k1, calls[g].k2)

\* C23 witness: a decodeError call has returned a retryable error after
\* a step of another goroutine's decodeError ran between its decoding and
\* its own lookup.
C23_Witness ==
    \E g, h \in DOMAIN calls :
        /\ g # h
        /\ calls[g].op = "decodeError" /\ calls[g].pc = "done"
        /\ calls[g].overlapped /\ IsErrorRetryable(calls[g].result)
        /\ calls[h].op = "decodeError" /\ calls[h].pc = "done"

(***************************************************************************)
(* The long branch of decodeError and its retryability lookup.             *)
(***************************************************************************)
\* decodeError has returned an *Error built by its long branch: the first
\* decoder failed and the second one succeeded.
LongBranchTaken ==
    err # NoResult /\ IsErrorPtr(err) /\ ~decodeShort(resp.Body).ok

C25_BodyUnreadBelow400 ==
    (pc = "idle" /\ resp # NoResult /\ resp.StatusCode < 400) =>
        /\ out.err = NoError
        /\ err = NoResult
        /\ unread = resp.Body

(***************************************************************************)
(* Encoding the empty list of integers.                                    *)
(***************************************************************************)
\* C26: encoding an empty integer list never crashes, neither in
\* CommaSliceInt.MarshalJSON nor in joinInts as GetHotelDetails calls it
\* with an empty codes list: the outcome is a text or an error value.
C26_EmptyListDefined ==
    ( /\ codec \in {"CommaSliceInt", "joinInts"}
      /\ FromList /\ source.list = << >> ) =>
        ~IsPanic(cerr)

(***************************************************************************)
(* ListHotels (content.go): ListHotelsInput.Encode writes the query        *)
(* parameters, ListHotels validates the input and hands a GET request with *)
(* those parameters to the transport.                                      *)
(***************************************************************************)
\* Mutant of Datetime.IsZero: every day of the year 1 counts as unset.
DatetimeIsZeroYearOne(d) == d.Year = 1

\* func (d Datetime) IsZero() bool: time.Time.IsZero, the instant
\* January 1, year 1, 00:00:00 UTC.
DatetimeIsZero(d) ==
    /\ d.Year = 1 /\ d.Month = 1 /\ d.Day = 1
    /\ d.Hour * 60 + d.Minute = d.Offset
    /\ d.Second = 0 /\ d.Nsec = 0

\* strconv.FormatBool
FormatBool(b) == IF b THEN <<"t","r","u","e">> ELSE <<"f","a","l","s","e">>

\* A *bool that is not nil.
Ptr(b) == [v |-> b]

\* url.Values with no key.
NoValues == [k \in {} |-> << >>]

\* v.Set(key, value)
Set(v, key, value) ==
    [k \in DOMAIN v \cup {key} |-> IF k = key THEN value ELSE v[k]]

\* func (inp ListHotelsInput) Encode(v url.Values) error, the values it
\* leaves in v.
ListHotelsInputEncode(i, v) ==
    LET v1 == IF Len(i.Codes) # 0
              THEN Set(v, "codes", SubSeq(WriteElems(i.Codes), 1,
                                          Len(WriteElems(i.Codes)) - 1))
              ELSE v
        v2 == IF i.CountryCode # << >>
              THEN Set(v1, "countryCode", i.CountryCode) ELSE v1
        v3 == IF i.DestinationCode # << >>
              THEN Set(v2, "destinationCode", i.DestinationCode) ELSE v2
        v4 == IF i.IncludeHotels # ""
              THEN Set(v3, "includeHotels", i.IncludeHotels) ELSE v3
        v5 == IF Len(i.Fields) # 0
              THEN Set(v4, "fields", Join(i.Fields)) ELSE v4
        v6 == IF i.Language # << >>
              THEN Set(v5, "language", i.Language) ELSE v5
        v7 == IF i.From # 0 THEN Set(v6, "from", Itoa(i.From)) ELSE v6
        v8 == IF i.To # 0 THEN Set(v7, "to", Itoa(i.To)) ELSE v7
        v9 == IF i.UseSecondaryLanguage # Nil
              THEN Set(v8, "useSecondaryLanguage",
                       FormatBool(i.UseSecondaryLanguage.v))
              ELSE v8
        v10 == IF ~DatetimeIsZero(i.LastUpdateTime)
               THEN Set(v9, "lastUpdateTime", DatetimeString(i.LastUpdateTime))
               ELSE v9
        v11 == IF i.OnlyPMSRoomCode # Nil
               THEN Set(v10, "PMSRoomCode", FormatBool(i.OnlyPMSRoomCode.v))
               ELSE v10
    IN v11

\* Get("/hotel-content-api/1.0/hotels", ...).WithEncodableQueryParams(inp)
ListHotelsRequest(i) ==
    [Method |-> "GET", Path |-> "/hotel-content-api/1.0/hotels",
     Query |-> ListHotelsInputEncode(i, NoValues)]

\* Inputs of ListHotels: each field unset or set; From, To and IncludeHotels
\* inside and outside their rules; a date of the year 1 that is not the
\* zero time.
ListHotelsTexts ==
    { [CountryCode |-> << >>, DestinationCode |-> << >>, Language |-> << >>],
      [CountryCode |-> <<"E", "S">>, DestinationCode |-> <<"P", "M", "I">>, Language |-> <<"E", "N", "G">>],
      [CountryCode |-> << >>, DestinationCode |-> <<"P", "M", "I">>, Language |-> << >>],
      [CountryCode |-> <<"E", "S">>, DestinationCode |-> << >>, Language |-> <<"E", "N", "G">>] }

ListHotelsInputs ==
    { [Codes |-> r.Codes, CountryCode |-> t.CountryCode,
       DestinationCode |-> t.DestinationCode,
       IncludeHotels |-> r.IncludeHotels, Fields |-> r.Fields,
       Language |-> t.Language, From |-> r.From, To |-> r.To,
       UseSecondaryLanguage |-> r.UseSecondaryLanguage,
       LastUpdateTime |-> r.LastUpdateTime,
       OnlyPMSRoomCode |-> r.OnlyPMSRoomCode] :
      t \in ListHotelsTexts,
      r \in [Codes : {<< >>, <<12, -3>>},
             IncludeHotels : {"", IncludeHotelsWebOnly, "all"},
             Fields : {<< >>, <<<<"n", "a", "m", "e">>, <<"c", "i", "t", "y">>>>},
             From : {-1, 0, 1},
             To : {0, maxToParam, maxToParam + 1},
             UseSecondaryLanguage : {Nil, Ptr(FALSE)},
             LastUpdateTime : {ZeroTime, Time(1, 1, 2, 0, 0, 0, 0, 0),
                               Time(2024, 4, 2, 0, 0, 0, 0, 0)},
             OnlyPMSRoomCode : {Nil, Ptr(TRUE)}] }

ListHotelsResponses ==
    [StatusCode : {200, 429},
     Body : { <<ShortDoc(Str(ErrQuotaExceeded.text))>> }]

InitListHotels ==
    /\ inp = NoResult /\ out = NoResult /\ wire = << >> /\ pc = "idle"
    /\ resp = NoResult /\ unread = << >> /\ err = NoResult
    /\ msg = EmptyString /\ cond = NoResult
    /\ geo = NoResult /\ geoErr = NoResult
    /\ ValidationIdle /\ CodecIdle /\ ConcurrencyIdle

\* inp.Encode(v) called on its own, on empty url.Values.
EncodeListHotelsInput ==
    /\ pc = "idle" /\ inp = NoResult
    /\ \E i \in ListHotelsInputs :
          /\ inp' = i
          /\ out' = [values |-> ListHotelsInputEncode(i, NoValues), err |-> NoError]
    /\ pc' = "encoded"
    /\ UNCHANGED <<wire, resp, unread, err, msg, cond, geo, geoErr>>
    /\ UNCHANGED <<validationVars, codecVars, concurrencyVars>>

\* api.ListHotels(ctx, i) up to the HTTP exchange: validation, and the
\* request handed to the transport when validation passes.
ListHotelsCall ==
    /\ pc = "idle" /\ inp = NoResult
    /\ \E i \in ListHotelsInputs :
          /\ inp' = i
          /\ IF ListHotelsInputValidate(i) # NoError
             THEN /\ out' = [resp |-> Nil, err |-> ListHotelsInputValidate(i)]
                  /\ pc' = "returned"
                  /\ UNCHANGED wire
             ELSE /\ out' = NoResult
                  /\ wire' = Append(wire, ListHotelsRequest(i))
                  /\ pc' = "waiting"
    /\ UNCHANGED <<resp, unread, err, msg, cond, geo, geoErr>>
    /\ UNCHANGED <<validationVars, codecVars, concurrencyVars>>

\* The response arrives: the transport runs the error-decode callback on it
\* and the call returns the callback's error when it reports one.
ListHotelsReturn ==
    /\ pc = "waiting"
    /\ \E r \in ListHotelsResponses :
       \E k1 \in ReadAhead(r.Body) :
       \E k2 \in ReadAhead(Drop(r.Body, k1)) :
          LET d == errorDecode(r, k1, k2) IN
          /\ resp' = r
          /\ unread' = d.unread
          /\ err' = d.err
          /\ out' = IF d.isError
                    THEN [resp |-> Nil, err |-> d.err]
                    ELSE [resp |-> [id |-> "ListHotelsResponse"], err |-> NoError]
    /\ pc' = "returned"
    /\ UNCHANGED <<msg, cond, geo, geoErr, inp, wire>>
    /\ UNCHANGED <<validationVars, codecVars, concurrencyVars>>

NextListHotels == EncodeListHotelsInput \/ ListHotelsCall \/ ListHotelsReturn

SpecListHotels == InitListHotels /\ [][NextListHotels]_vars

\* The query parameter of each field, when the field is set.
ExpectedParams(i) ==
    [codes |-> IF i.Codes # << >> THEN <<Join([n \in DOMAIN i.Codes |-> Itoa(i.Codes[n])])>> ELSE << >>,
     countryCode |-> IF i.CountryCode # << >> THEN <<i.CountryCode>> ELSE << >>,
     destinationCode |-> IF i.DestinationCode # << >> THEN <<i.DestinationCode>> ELSE << >>,
     includeHotels |-> IF i.IncludeHotels # "" THEN <<i.IncludeHotels>> ELSE << >>,
     fields |-> IF i.Fields # << >> THEN <<Join(i.Fields)>> ELSE << >>,
     language |-> IF i.Language # << >> THEN <<i.Language>> ELSE << >>,
     from |-> IF i.From # 0 THEN <<Itoa(i.From)>> ELSE << >>,
     to |-> IF i.To # 0 THEN <<Itoa(i.To)>> ELSE << >>,
     useSecondaryLanguage |->
        IF i.UseSecondaryLanguage # Nil
        THEN <<FormatBool(i.UseSecondaryLanguage.v)>> ELSE << >>,
     lastUpdateTime |->
        IF i.LastUpdateTime # ZeroTime
        THEN <<DateText(i.LastUpdateTime.Year, i.LastUpdateTime.Month,
                        i.LastUpdateTime.Day)>>
        ELSE << >>,
     PMSRoomCode |->
        IF i.OnlyPMSRoomCode # Nil
        THEN <<FormatBool(i.OnlyPMSRoomCode.v)>> ELSE << >>]

\* C27: ListHotelsInput.Encode emits the parameter of a field exactly when
\* the field is set (non-empty string or list, non-zero integer, non-nil
\* flag, non-zero date) and with the field's value; lastUpdateTime is
\* emitted iff LastUpdateTime is not the zero time, as YYYY-MM-DD text.
C27_EmittedIffSet ==
    pc = "encoded" =>
        /\ DOMAIN out.values \subseteq DOMAIN ExpectedParams(inp)
        /\ \A k \in DOMAIN ExpectedParams(inp) :
              /\ k \in DOMAIN out.values <=> ExpectedParams(inp)[k] # << >>
              /\ k \in DOMAIN out.values =>
                    out.values[k] = ExpectedParams(inp)[k][1]

\* C27 witness: Encode has run on an input with a date of the year 1 that
\* is set, with From and the flags unset, and wrote lastUpdateTime only.
C27_Witness ==
    /\ pc = "encoded"
    /\ inp.LastUpdateTime = Time(1, 1, 2, 0, 0, 0, 0, 0)
    /\ DOMAIN out.values = {"lastUpdateTime"}
    /\ out.values["lastUpdateTime"] = <<"0","0","0","1","-","0","1","-","0","2">>

\* An input that breaks a rule of ListHotels named in C28.
BreaksListHotelsRule(i) ==
    \/ i.From # 0 /\ i.From < 1
    \/ i.To > 1000
    \/ i.IncludeHotels # "" /\ i.IncludeHotels \notin {"webOnly", "notOnSale"}

\* C28: a call of ListHotels sends no request and returns an error exactly
\* when From is set and below 1, or To is above 1000, or IncludeHotels is
\* non-empty and not webOnly or notOnSale; for every other input the GET
\* request is handed to the transport.
C28_SentIffValid ==
    pc \in {"waiting", "returned"} =>
        IF BreaksListHotelsRule(inp)
        THEN /\ wire = << >> /\ resp = NoResult
             /\ out.resp = Nil /\ out.err # NoError
        ELSE /\ wire = <<ListHotelsRequest(inp)>>
             /\ pc = "waiting" => out = NoResult

\* C28 witness: a call with To = 1000 and From unset has put its request on
\* the wire.
C28_Witness ==
    /\ pc = "waiting" /\ inp.To = 1000 /\ inp.From = 0
    /\ wire = <<ListHotelsRequest(inp)>>
    /\ wire[1].Method = "GET"

(***************************************************************************)
(* ParseE163 (parse.go): a phone number as the upstream API writes it,     *)
(* turned into an E.164 number.                                            *)
(***************************************************************************)
\* const phoneE164Length = 8
phoneE164Length == 8

\* The characters of the argument of strings.IndexAny(raw, ".-, ").
Delimiters == {".", "-", ",", " "}

\* strings.IndexAny(s, chars): the zero-based index of the first character
\* of s that is in chars, -1 when there is none.
IndexAny(s, chars) ==
    IF IndexesOf(s, chars) = {} THEN -1 ELSE Min(IndexesOf(s, chars)) - 1

\* strings.ReplaceAll(s, string(char), "")
ReplaceAll(s, char) == SelectSeq(s, LAMBDA c : c # char)

\* strings.HasPrefix(s, prefix)
HasPrefix(s, prefix) ==
    Len(s) >= Len(prefix) /\ SubSeq(s, 1, Len(prefix)) = prefix

\* func ParseE163(raw string) string. The character at delimPos is one of
\* the delimiters, never the zero byte the code compares it with.
ParseE163(raw) ==
    LET delimPos == IndexAny(raw, Delimiters)
        e164Number == IF delimPos > 0
                      THEN ReplaceAll(raw, raw[delimPos + 1])
                      ELSE raw
        formattedNumber ==
            IF HasPrefix(e164Number, <<"+", "0", "0">>)
            THEN SubSeq(e164Number, 4, Len(e164Number))
            ELSE IF HasPrefix(e164Number, <<"0", "0">>)
            THEN SubSeq(e164Number, 3, Len(e164Number))
            ELSE e164Number
    IN IF Len(e164Number) < phoneE164Length THEN [str |-> << >>, err |-> NoError]
       ELSE IF formattedNumber = << >>
       THEN [str |-> << >>, err |-> IndexOutOfRange]
       ELSE IF formattedNumber[1] # "+"
       THEN [str |-> <<"+">> \o formattedNumber, err |-> NoError]
       ELSE [str |-> formattedNumber, err |-> NoError]

\* Phone numbers of at most MaxPieces pieces: the sign, the international
\* prefix, groups of digits, and the four delimiters.
MaxPieces == 4

PhonePieces ==
    { <<"+">>, <<"0", "0">>, <<"1", "2", "3">>, <<"4", "5", "6", "7">>,
      <<".">>, <<"-">>, <<",">>, <<" ">> }

RawPhones ==
    { Flatten(ps) : ps \in UNION { [1..n -> PhonePieces] : n \in 0..MaxPieces } }

InitPhone ==
    /\ codec = "ParseE163"
    /\ source \in [raw : RawPhones]
    /\ data = << >> /\ target = NoResult /\ cerr = NoResult
    /\ ApiIdle /\ ValidationIdle /\ ConcurrencyIdle

\* ParseE163(raw)
ParsePhone ==
    /\ codec = "ParseE163" /\ cerr = NoResult
    /\ data' = ParseE163(source.raw).str
    /\ cerr' = ParseE163(source.raw).err
    /\ UNCHANGED <<codec, source, target, apiVars, validationVars>>
    /\ UNCHANGED concurrencyVars

\* ParseE163 applied to the non-empty result of the first call.
ParsePhoneAgain ==
    /\ codec = "ParseE163" /\ cerr = NoError /\ data # << >>
    /\ target = NoResult
    /\ target' = ParseE163(data)
    /\ UNCHANGED <<codec, source, data, cerr, apiVars, validationVars>>
    /\ UNCHANGED concurrencyVars

NextPhone == ParsePhone \/ ParsePhoneAgain

SpecPhone == InitPhone /\ [][NextPhone]_vars

\* The inputs C29 is about: digits and delimiters, with at most one '+',
\* in front.
IsPhoneInput(raw) ==
    \A n \in DOMAIN raw :
        \/ IsDigit(raw[n])
        \/ raw[n] \in Delimiters
        \/ raw[n] = "+" /\ n = 1

\* A single leading '+' followed only by digits.
IsE164(s) ==
    /\ Len(s) >= 2 /\ s[1] = "+"
    /\ \A n \in 2..Len(s) : IsDigit(s[n])

\* C29: for an input of digits, delimiters and an optional leading '+',
\* ParseE163 returns the empty string or a '+' followed only by digits, no
\* delimiter left, and ParseE163 of a non-empty result is that result.
C29_WellFormedAndIdempotent ==
    (codec = "ParseE163" /\ IsPhoneInput(source.raw)) =>
        /\ cerr # NoResult => cerr = NoError /\ (data = << >> \/ IsE164(data))
        /\ target # NoResult => target.str = data

(***************************************************************************)
(* The booking operations that take no validation (booking.go):            *)
(* GetBooking, ListBookings, CancelBooking. Each builds one request and    *)
(* hands it to the transport.                                              *)
(***************************************************************************)
\* The runtime panic of *inp on a nil inp.
NilPointerDereference == Panic("invalid memory address or nil pointer dereference")

BookingIds == {"1-111", "2-222"}

\* *CancelBookingInput: nil, or a mode and a language.
CancelBookingInputs ==
    {Nil} \cup [Mode : {"CANCELLATION", "SIMULATION"}, Language : {"", "ENG"}]

\* Get("/hotel-api/1.0/bookings/"+id, ...)
GetBookingRequest(id) ==
    [Method |-> "GET", Path |-> <<"/hotel-api/1.0/bookings/", id>>,
     Body |-> Nil, Query |-> Nil]

\* Delete("/hotel-api/1.0/bookings", inp, ...).WithQueryParams("url", *inp)
ListBookingsRequest(i) ==
    [Method |-> "DELETE", Path |-> <<"/hotel-api/1.0/bookings">>,
     Body |-> i, Query |-> i]

\* Delete("/hotel-api/1.0/bookings/"+id, nil, ...).WithQueryParams("url", *inp)
CancelBookingRequest(id, i) ==
    [Method |-> "DELETE", Path |-> <<"/hotel-api/1.0/bookings/", id>>,
     Body |-> Nil, Query |-> i]

BookingResponses ==
    [StatusCode : {200, 400},
     Body : { <<BookingDoesNotExistDoc>> }]

InitBookings ==
    /\ inp = NoResult /\ out = NoResult /\ wire = << >> /\ pc = "idle"
    /\ resp = NoResult /\ unread = << >> /\ err = NoResult
    /\ msg = EmptyString /\ cond = NoResult
    /\ geo = NoResult /\ geoErr = NoResult
    /\ ValidationIdle /\ CodecIdle /\ ConcurrencyIdle

\* api.GetBooking(ctx, id) up to the HTTP exchange.
GetBookingCall ==
    /\ pc = "idle" /\ Len(wire) < MaxRequests
    /\ \E id \in BookingIds :
          /\ inp' = [op |-> "GetBooking", id |-> id, inp |-> Nil]
          /\ wire' = Append(wire, GetBookingRequest(id))
    /\ out' = NoResult /\ pc' = "waiting"
    /\ resp' = NoResult /\ unread' = << >> /\ err' = NoResult
    /\ UNCHANGED <<msg, cond, geo, geoErr>>
    /\ UNCHANGED <<validationVars, codecVars, concurrencyVars>>

\* api.ListBookings(ctx, i) up to the HTTP exchange; *inp panics on nil.
ListBookingsCall ==
    /\ pc = "idle" /\ Len(wire) < MaxRequests
    /\ \E i \in CancelBookingInputs :
          /\ inp' = [op |-> "ListBookings", id |-> "", inp |-> i]
          /\ IF i = Nil
             THEN /\ out' = [resp |-> Nil, err |-> NilPointerDereference]
                  /\ UNCHANGED <<wire, pc>>
             ELSE /\ out' = NoResult
                  /\ wire' = Append(wire, ListBookingsRequest(i))
                  /\ pc' = "waiting"
    /\ resp' = NoResult /\ unread' = << >> /\ err' = NoResult
    /\ UNCHANGED <<msg, cond, geo, geoErr>>
    /\ UNCHANGED <<validationVars, codecVars, concurrencyVars>>

\* api.CancelBooking(ctx, id, i) up to the HTTP exchange; *inp panics on
\* nil.
CancelBookingCall ==
    /\ pc = "idle" /\ Len(wire) < MaxRequests
    /\ \E id \in BookingIds, i \in CancelBookingInputs :
          /\ inp' = [op |-> "CancelBooking", id |-> id, inp |-> i]
          /\ IF i = Nil
             THEN /\ out' = [resp |-> Nil, err |-> NilPointerDereference]
                  /\ UNCHANGED <<wire, pc>>
             ELSE /\ out' = NoResult
                  /\ wire' = Append(wire, CancelBookingRequest(id, i))
                  /\ pc' = "waiting"
    /\ resp' = NoResult /\ unread' = << >> /\ err' = NoResult
    /\ UNCHANGED <<msg, cond, geo, geoErr>>
    /\ UNCHANGED <<validationVars, codecVars, concurrencyVars>>

\* The response arrives: the transport runs the error-decode callback on it
\* and the call returns the callback's error when it reports one.
BookingReturn ==
    /\ pc = "waiting"
    /\ \E r \in BookingResponses :
       \E k1 \in ReadAhead(r.Body) :
       \E k2 \in ReadAhead(Drop(r.Body, k1)) :
          LET d == errorDecode(r, k1, k2) IN
          /\ resp' = r
          /\ unread' = d.unread
          /\ err' = d.err
          /\ out' = IF d.isError
                    THEN [resp |-> Nil, err |-> d.err]
                    ELSE [resp |-> [id |-> inp.op], err |-> NoError]
    /\ pc' = "idle"
    /\ UNCHANGED <<msg, cond, geo, geoErr, inp, wire>>
    /\ UNCHANGED <<validationVars, codecVars, concurrencyVars>>

NextBookings ==
    GetBookingCall \/ ListBookingsCall \/ CancelBookingCall \/ BookingReturn

SpecBookings == InitBookings /\ [][NextBookings]_vars

\* C30: ListBookings never sends a DELETE request: the request a
\* ListBookings call has put on the wire is not a DELETE, and every DELETE
\* on the wire is CancelBooking's, addressed to one booking.
C30_ListBookingsReadOnly ==
    /\ (pc = "waiting" /\ inp.op = "ListBookings") =>
            wire[Len(wire)].Method # "DELETE"
    /\ \A n \in DOMAIN wire :
            wire[n].Method = "DELETE" =>
                wire[n].Path[1] = "/hotel-api/1.0/bookings/"
====
